---------------------------- MODULE Spec2Model ----------------------------
(***************************************************************************)
(* A model of the minimal GLib replacement (mdbfakeglib.c) and of the      *)
(* mdbtools helper routines (mdbtools-missing 2.c) of the Checkbook MDB    *)
(* bridging layer: the pointer array, the associative container built on   *)
(* it, the doubly linked list, the growable string buffer, g_strsplit, the *)
(* RC4 routine and the two transcoders.                                    *)
(*                                                                         *)
(* Each component has its own specification (SpecArray, SpecHash, ...);    *)
(* the variables of the other components stay at their idle value.         *)
(* SpecContainers runs any one of the four containers.  SpecLoops takes    *)
(* g_ptr_array_sort and g_hash_table_foreach_remove one pass at a time and *)
(* SpecLoopsFair adds that a call that can take a step does take it.       *)
(* SpecCalls makes single calls with every pointer argument, NULL and      *)
(* lengths beyond the string included, and records what the call touched.  *)
(* Pointers are naturals, NULL is 0.  An allocation (malloc, calloc,       *)
(* realloc) may fail: its outcome is an input of the action that calls it. *)
(* Bytes of a block that no code has written yet hold the value Uninit.    *)
(***************************************************************************)
EXTENDS Integers, Sequences, FiniteSets, TLC

VARIABLES
    arr,        \* GPtrArray *: [isnull, pdata: the backing block, len]
    arr_hist,   \* ghost: the handles g_ptr_array_add stored, in call order
    arr_last,   \* ghost: the last call on arr, its argument, ok: whether its
                \*        allocation succeeded (for a remove, the value it
                \*        returned), the elements of [0,len) before it
    arr_freed,  \* ghost: the pointers the last call passed to free(), in order
    arr_fe      \* the g_ptr_array_foreach call: [pc, i, and the ghosts len0:
                \*   array->len when it was called, visits: the slot indices
                \*   passed to the callback, mutated: the callback changed
                \*   the array]

arrVars == <<arr, arr_hist, arr_last, arr_freed, arr_fe>>

VARIABLES
    ht,         \* GHashTable *: [isnull, compare, array: its GPtrArray *]
    ht_heap,    \* the HashEntry records malloc ever returned, entry pointer
                \* p being ht_heap[p]: [key, value, st: "alloc", "freed" or
                \* "freed twice"]
    ht_last,    \* ghost: the last call on ht, its arguments, whether the key
                \*        was present, whether its allocations succeeded, its result
    ht_freed    \* ghost: the pointers the last call passed to free(), in order

htVars == <<ht, ht_heap, ht_last, ht_freed>>

VARIABLES
    gs,         \* GString *: [isnull, str: the block, len, allocated_len]
    gs_ref,     \* ghost: the reference string, stepped by the calls that
                \*        did not fail
    gs_last     \* ghost: the last call on gs, whether it returned NULL, and
                \*        the reference string stepped by it, failed or not

gsVars == <<gs, gs_ref, gs_last>>

VARIABLES
    rc,         \* one mdbi_rc4 call: [pc, key, key_len, data, data_len,
                \*                     s, i, j, k]
    rc_hist     \* ghost: [pass: which application this is, orig: the data
                \*        before the first, mid: the data after the first]

rcVars == <<rc, rc_hist>>

VARIABLES
    sp          \* one g_strsplit call: [pc, haystack, needle, max_tokens,
                \*   result: the vector returned, oom: an allocation failed]

spVars == <<sp>>

VARIABLES
    cv          \* the transcoder calls: [pc, src, slen, dest, dlen, writes:
                \*   the dest indices the last call wrote, ret, and the
                \*   ghosts via, orig, dlen1 of a round trip]

cvVars == <<cv>>

VARIABLES
    gl,         \* GList *: the head the last call returned (a node address)
    gl_heap,    \* the GList nodes malloc returned, by address: [data, next,
                \*   prev, frees: the number of free() calls on the node]
    gl_last     \* ghost: the last call [op, arg, ok, head: the head before,
                \*   heap: the nodes before, freed: the pointers passed to
                \*   free(), in order]

glVars == <<gl, gl_heap, gl_last>>

VARIABLES
    lp          \* one call of a loop that calls back, taken one pass at a
                \*   time.  g_ptr_array_sort: [kind, pc, array, func, i, j,
                \*   and the ghosts before: the elements at the call, log:
                \*   the comparisons made, <<a, b, func(a, b) > 0>>];
                \*   g_hash_table_foreach_remove: [kind, pc, table, heap,
                \*   function, i, and the ghosts len0: array->len at the
                \*   call, calls: the calls of the predicate, removed: the
                \*   entries it freed]

lpVars == <<lp>>

VARIABLES
    fn          \* one call of a function on the pointers its caller hands
                \*   it: [op, args, nullarg: a required argument was NULL,
                \*   nullderef: the call read, wrote or called through a
                \*   NULL pointer, reads: the indices of src it read,
                \*   outcome: "returned" or "crashed", ret, sentinel: the
                \*   failure result of op]

fnVars == <<fn>>

vars ==
    <<arrVars, htVars, gsVars, rcVars, spVars, cvVars, glVars, lpVars, fnVars>>

NULL == 0
Uninit == -1
Idle == "idle"
IdleOp == [op |-> "idle"]

(***************************************************************************)
(* Bounds of the model.                                                    *)
(***************************************************************************)
NHandles == 3       \* distinct payload handles 1..NHandles
MaxAdds == 3        \* g_ptr_array_add calls that succeed in one run
NKeys == 3          \* distinct key pointers 1..NKeys
NValues == 2        \* distinct value pointers 1..NValues
MaxEntries == 2     \* HashEntry records allocated in one run
MaxTextLen == 2     \* strlen of a text passed to the GString functions
MaxStrLen == 4      \* strlen of the content of the GString
MaxKeyLen == 2      \* key_len of an mdbi_rc4 call
MaxDataLen == 2     \* data_len of an mdbi_rc4 call
MaxHayLen == 5      \* strlen of the haystack of a g_strsplit call
MaxNeedleLen == 2   \* strlen of the needle of a g_strsplit call
MaxTokens == 3      \* max_tokens of a g_strsplit call
MaxNarrowLen == 2   \* slen of an mdb_ascii2unicode call
MaxWideLen == 4     \* slen of a direct mdb_unicode2ascii call
MaxDlen == 5        \* dlen of a transcoder call
MaxNodes == 3       \* GList nodes allocated in one run
MaxSortLen == 3     \* elements of an array handed to g_ptr_array_sort

Handles == 1..NHandles
Keys == 1..NKeys
Values == 1..NValues

\* The bytes texts are made of ('a', 'b'); NUL ends a C string.
Chars == {97, 98}
NUL == 0

RECURSIVE SeqsUpTo(_, _)
SeqsUpTo(S, n) ==
    IF n = 0 THEN {<<>>}
    ELSE LET shorter == SeqsUpTo(S, n - 1)
         IN  shorter \cup {Append(q, c) : q \in shorter, c \in S}

\* A const char * argument: NULL, or a pointer to the bytes s and a NUL.
NullText == [isnull |-> TRUE, s |-> <<>>]
Text(s) == [isnull |-> FALSE, s |-> s]
Texts == {Text(q) : q \in SeqsUpTo(Chars, MaxTextLen)} \cup {NullText}

(***************************************************************************)
(* Generic helpers.                                                        *)
(***************************************************************************)
Min(a, b) == IF a < b THEN a ELSE b

\* realloc(block, n slots): the old contents up to the smaller of the two
\* sizes, the new slots not yet written.
Realloc(block, n) ==
    [i \in 1..n |-> IF i <= Len(block) THEN block[i] ELSE Uninit]

\* The elements of slots [0, len) of an array record.
Live(array) == SubSeq(array.pdata, 1, array.len)

\* A pointer passed to free(): a payload (array element, list data, key or
\* value) or a block of a container (a GList node, a HashEntry, the slots of
\* a GPtrArray, a GPtrArray or GHashTable record).
Ptr(kind, at) == [kind |-> kind, at |-> at]
DataPtr(d) == Ptr("data", d)
NodePtr(n) == Ptr("node", n)
EntryPtr(e) == Ptr("entry", e)

(***************************************************************************)
(* GPtrArray (mdbfakeglib.c).  Slot i of the C array is pdata[i+1] here.   *)
(***************************************************************************)
\* A GPtrArray pointer: the NULL pointer, or the record malloc returned.
NullArray == [isnull |-> TRUE, pdata |-> <<>>, len |-> 0]
MkArray(pdata, len) == [isnull |-> FALSE, pdata |-> pdata, len |-> len]

g_ptr_array_new(ok) == IF ok THEN MkArray(<<>>, 0) ELSE NullArray

\* g_ptr_array_add: realloc to len+1 slots, store in the new last slot.
g_ptr_array_add_swapped(array, entry, ok) ==
    IF array.isnull \/ ~ok THEN array
    ELSE MkArray(<<entry>> \o SubSeq(array.pdata, 1, array.len),
                 array.len + 1)

g_ptr_array_add(array, entry, ok) ==
    IF array.isnull THEN array
    ELSE IF ~ok THEN array
    ELSE LET new_pdata == Realloc(array.pdata, array.len + 1)
         IN  MkArray([new_pdata EXCEPT ![array.len + 1] = entry],
                     array.len + 1)

\* A removal that fills the hole with the last element instead of shifting.
ShiftLeftSwapLast(pdata, j, len) ==
    [pdata EXCEPT ![j] = pdata[len]]

\* The inner loop of g_ptr_array_remove: for (j = i; j < len - 1; j++)
\* pdata[j] = pdata[j + 1].
RECURSIVE ShiftLeft(_, _, _)
ShiftLeft(pdata, j, len) ==
    IF j < len
    THEN ShiftLeft([pdata EXCEPT ![j] = pdata[j + 1]], j + 1, len)
    ELSE pdata

\* The outer loop of g_ptr_array_remove from slot i on: the array after the
\* call and the value returned.
RECURSIVE RemoveScan(_, _, _)
RemoveScan(array, data, i) ==
    IF i > array.len THEN [array |-> array, ret |-> FALSE]
    ELSE IF array.pdata[i] = data
    THEN [array |-> MkArray(ShiftLeft(array.pdata, i, array.len),
                            array.len - 1),
          ret |-> TRUE]
    ELSE RemoveScan(array, data, i + 1)

g_ptr_array_remove(array, data) ==
    IF array.isnull THEN [array |-> array, ret |-> FALSE]
    ELSE RemoveScan(array, data, 1)

\* A g_ptr_array_free that frees the elements when asked to.
FreeElementsHonoured(array, free_elements) ==
    IF free_elements
    THEN [i \in 1..array.len |-> DataPtr(array.pdata[i])]
    ELSE <<>>

\* (void)free_elements: the elements g_ptr_array_free frees, none for
\* either value of the flag.
FreeElements(array, free_elements) == <<>>

\* g_ptr_array_free: the pointers passed to free(), in order.  The slots
\* are the block at pdata, NULL as long as no add succeeded.
g_ptr_array_free(array, free_elements) ==
    IF array.isnull THEN <<>>
    ELSE FreeElements(array, free_elements)
         \o <<Ptr("pdata", IF array.pdata = <<>> THEN NULL ELSE 1),
              Ptr("array", 1)>>

\* A loop test that lets the index reach array->len.
ForeachMoreInclusive(array, i) == i <= array.len

\* The loop test of g_ptr_array_foreach: i < array->len, read from the
\* array before every iteration.
ForeachMore(array, i) == i < array.len

\* No g_ptr_array_foreach call is running and none has returned since the
\* last other call.
NoForeach ==
    [pc |-> "idle", i |-> 0, len0 |-> 0, visits |-> <<>>, mutated |-> FALSE]

(***************************************************************************)
(* The pointer array under every sequence of add, remove and foreach       *)
(* calls, freed at the end.  The callback of g_ptr_array_foreach does      *)
(* nothing, or adds to or removes from the array it is iterating.          *)
(***************************************************************************)
ArrInit ==
    /\ arr \in {g_ptr_array_new(ok) : ok \in BOOLEAN}
    /\ arr_hist = <<>>
    /\ arr_last = [op |-> "new", arg |-> NULL, ok |-> TRUE, before |-> <<>>]
    /\ arr_freed = <<>>
    /\ arr_fe = NoForeach

ArrAdd ==
    \E entry \in Handles, ok \in BOOLEAN :
        /\ arr_last.op # "free" /\ arr_fe.pc # "loop"
        /\ Len(arr_hist) < MaxAdds
        /\ arr_freed' = <<>> /\ arr_fe' = NoForeach
        /\ arr' = g_ptr_array_add(arr, entry, ok)
        /\ arr_hist' = IF ~arr.isnull /\ ok THEN Append(arr_hist, entry)
                       ELSE arr_hist
        /\ arr_last' = [op |-> "add", arg |-> entry,
                        ok |-> ~arr.isnull /\ ok, before |-> Live(arr)]

ArrRemove ==
    \E data \in Handles :
        /\ arr_last.op # "free" /\ arr_fe.pc # "loop"
        /\ arr_freed' = <<>> /\ arr_fe' = NoForeach
        /\ arr' = g_ptr_array_remove(arr, data).array
        /\ arr_hist' = arr_hist
        /\ arr_last' = [op |-> "remove", arg |-> data,
                        ok |-> g_ptr_array_remove(arr, data).ret,
                        before |-> Live(arr)]

\* g_ptr_array_free(array, free_elements); the array is not used again.
ArrFree ==
    \E free_elements \in BOOLEAN :
        /\ arr_last.op # "free" /\ arr_fe.pc # "loop"
        /\ arr_freed' = g_ptr_array_free(arr, free_elements)
        /\ arr_fe' = NoForeach
        /\ UNCHANGED <<arr, arr_hist>>
        /\ arr_last' = [op |-> "free", arg |-> IF free_elements THEN 1 ELSE 0,
                        ok |-> TRUE, before |-> Live(arr)]

\* g_ptr_array_foreach(array, function, user_data) is called: it returns at
\* once when array or function is NULL, and enters its loop with i = 0
\* otherwise.
ArrForeachCall ==
    \E function \in BOOLEAN :
        /\ arr_last.op # "free" /\ arr_fe.pc # "loop"
        /\ arr_fe' = [NoForeach EXCEPT
                         !.pc = IF arr.isnull \/ ~function THEN "done" ELSE "loop",
                         !.len0 = arr.len]
        /\ arr_freed' = <<>>
        /\ UNCHANGED <<arr, arr_hist>>
        /\ arr_last' = [op |-> "foreach", arg |-> IF function THEN 1 ELSE 0,
                        ok |-> TRUE, before |-> Live(arr)]

\* One iteration: function(array->pdata[i], user_data); i++.  The callback
\* leaves the array alone, or calls g_ptr_array_add or g_ptr_array_remove
\* on it.
ArrForeachVisit ==
    /\ arr_fe.pc = "loop"
    /\ ForeachMore(arr, arr_fe.i)
    /\ \/ /\ UNCHANGED <<arr, arr_hist>>
          /\ arr_fe' = [arr_fe EXCEPT !.i = arr_fe.i + 1,
                                      !.visits = Append(arr_fe.visits, arr_fe.i)]
       \/ \E entry \in Handles, ok \in BOOLEAN :
              /\ Len(arr_hist) < MaxAdds
              /\ arr' = g_ptr_array_add(arr, entry, ok)
              /\ arr_hist' = IF ok THEN Append(arr_hist, entry) ELSE arr_hist
              /\ arr_fe' = [arr_fe EXCEPT !.i = arr_fe.i + 1,
                                 !.visits = Append(arr_fe.visits, arr_fe.i),
                                 !.mutated = arr_fe.mutated \/ ok]
       \/ \E data \in Handles :
              LET r == g_ptr_array_remove(arr, data)
              IN  /\ arr' = r.array
                  /\ arr_hist' = arr_hist
                  /\ arr_fe' = [arr_fe EXCEPT !.i = arr_fe.i + 1,
                                              !.visits = Append(arr_fe.visits, arr_fe.i),
                                              !.mutated = arr_fe.mutated \/ r.ret]
    /\ UNCHANGED <<arr_last, arr_freed>>

\* The loop test fails: g_ptr_array_foreach returns.
ArrForeachReturn ==
    /\ arr_fe.pc = "loop"
    /\ ~ForeachMore(arr, arr_fe.i)
    /\ arr_fe' = [arr_fe EXCEPT !.pc = "done"]
    /\ UNCHANGED <<arr, arr_hist, arr_last, arr_freed>>


(***************************************************************************)
(* GHashTable (mdbfakeglib.c): a GPtrArray of HashEntry pointers, scanned  *)
(* linearly with the equality predicate given to g_hash_table_new.         *)
(***************************************************************************)
\* The equality predicates a caller configures: g_str_equal compares the
\* strings the two key pointers point to (keys 1 and 2 point to equal
\* strings, as do 3 and 4, ...), "identity" compares the pointers.
KeyContent(k) == (k + 1) \div 2

g_str_equal(str1, str2) == KeyContent(str1) = KeyContent(str2)

Compare(compare, a, b) ==
    IF compare = "g_str_equal" THEN g_str_equal(a, b) ELSE a = b

EqualFuncs == {"g_str_equal", "identity"}

NullTable == [isnull |-> TRUE, compare |-> "identity", array |-> NullArray]

g_hash_table_new(equal_func, okTable, okArray) ==
    IF ~okTable THEN NullTable
    ELSE [isnull |-> FALSE, compare |-> equal_func,
          array |-> g_ptr_array_new(okArray)]

\* if (!table || !table->array) return ...
Unusable(table) == table.isnull \/ table.array.isnull

\* The scan loop of g_hash_table_lookup from slot i on: the first slot whose
\* entry is non-NULL and has a key equal to key, 0 when there is none.
RECURSIVE LookupScan(_, _, _, _)
LookupScan(table, heap, key, i) ==
    IF i > table.array.len THEN 0
    ELSE LET entry == table.array.pdata[i]
         IN  IF entry # NULL /\ Compare(table.compare, heap[entry].key, key)
             THEN i
             ELSE LookupScan(table, heap, key, i + 1)

g_hash_table_lookup(table, heap, key) ==
    IF Unusable(table) THEN NULL
    ELSE LET i == LookupScan(table, heap, key, 1)
         IN  IF i # 0 THEN heap[table.array.pdata[i]].value ELSE NULL

\* g_hash_table_lookup_extended with orig_key and value not NULL: the value
\* returned and what it stores to *orig_key and *value (nothing, shown as
\* NULL, when it returns FALSE).
g_hash_table_lookup_extended(table, heap, lookup_key) ==
    LET i == IF Unusable(table) THEN 0 ELSE LookupScan(table, heap, lookup_key, 1)
    IN  IF i # 0
        THEN [ret |-> TRUE, orig_key |-> heap[table.array.pdata[i]].key,
              value |-> heap[table.array.pdata[i]].value]
        ELSE [ret |-> FALSE, orig_key |-> NULL, value |-> NULL]

\* A scan that starts one slot too far and so never looks at slot 0.
RECURSIVE InsertScanRest(_, _, _, _)
InsertScanRest(table, heap, key, i) ==
    IF i > table.array.len THEN 0
    ELSE LET entry == table.array.pdata[i]
         IN  IF entry # NULL /\ Compare(table.compare, heap[entry].key, key)
             THEN i
             ELSE InsertScanRest(table, heap, key, i + 1)

InsertScanSkipFirst(table, heap, key, i) ==
    InsertScanRest(table, heap, key, i + 1)

\* The scan loop of g_hash_table_insert ("Check if key exists").
RECURSIVE InsertScan(_, _, _, _)
InsertScan(table, heap, key, i) ==
    IF i > table.array.len THEN 0
    ELSE LET entry == table.array.pdata[i]
         IN  IF entry # NULL /\ Compare(table.compare, heap[entry].key, key)
             THEN i
             ELSE InsertScan(table, heap, key, i + 1)

\* An overwrite through the first record instead of the matching one.
SetValueFirstRecord(heap, entry, value) == [heap EXCEPT ![1].value = value]

\* An overwrite that leaves the old value in place.
SetValueKeepOld(heap, entry, value) == heap

\* entry->value = value
SetValue(heap, entry, value) == [heap EXCEPT ![entry].value = value]

\* g_hash_table_insert: the table and the heap after the call.  okEntry is
\* the outcome of malloc(sizeof(HashEntry)), okGrow that of the realloc in
\* g_ptr_array_add.
g_hash_table_insert(table, heap, key, value, okEntry, okGrow) ==
    IF Unusable(table) THEN [table |-> table, heap |-> heap]
    ELSE LET i == InsertScan(table, heap, key, 1)
         IN  IF i # 0
             THEN [table |-> table,
                   heap |-> SetValue(heap, table.array.pdata[i], value)]
             ELSE IF okEntry
             THEN LET entry == Len(heap) + 1
                  IN  [table |-> [table EXCEPT !.array =
                                     g_ptr_array_add(table.array, entry, okGrow)],
                       heap |-> Append(heap, [key |-> key, value |-> value,
                                              st |-> "alloc"])]
             ELSE [table |-> table, heap |-> heap]

\* free(entry): the record is gone, what it held can no longer be read.
FreeEntry(heap, entry) ==
    [heap EXCEPT ![entry] =
        [key |-> NULL, value |-> NULL,
         st |-> IF heap[entry].st = "alloc" THEN "freed" ELSE "freed twice"]]

\* The compaction after a removal: for (j = i; j < len - 1; j++)
\* pdata[j] = pdata[j + 1]; len--.
Compact(array, i) ==
    MkArray(ShiftLeft(array.pdata, i, array.len), array.len - 1)

\* The scan loop of g_hash_table_remove.
RECURSIVE HtRemoveScan(_, _, _, _)
HtRemoveScan(table, heap, key, i) ==
    IF i > table.array.len
    THEN [table |-> table, heap |-> heap, ret |-> FALSE]
    ELSE LET entry == table.array.pdata[i]
         IN  IF entry # NULL /\ Compare(table.compare, heap[entry].key, key)
             THEN [table |-> [table EXCEPT !.array = Compact(table.array, i)],
                   heap |-> FreeEntry(heap, entry),
                   ret |-> TRUE]
             ELSE HtRemoveScan(table, heap, key, i + 1)

g_hash_table_remove(table, heap, key) ==
    IF Unusable(table) THEN [table |-> table, heap |-> heap, ret |-> FALSE]
    ELSE HtRemoveScan(table, heap, key, 1)

\* A loop that steps to the next slot after a removal too.
SlotAfterRemovalAdvanced(i) == i + 1

\* The slot the loop of g_hash_table_foreach_remove looks at after it
\* removed the entry of slot i: the same slot, the next entry having been
\* shifted into it (i++ is in the else branch only).
SlotAfterRemoval(i) == i

\* The loop of g_hash_table_foreach_remove from slot i on; calls is the
\* number of calls of the predicate made so far and decide[c] what its c-th
\* call returns; seen lists the entries passed to the predicate, in call
\* order.
RECURSIVE ForeachRemoveLoop(_, _, _, _, _)
ForeachRemoveLoop(table, heap, decide, i, calls) ==
    IF i > table.array.len
    THEN [table |-> table, heap |-> heap, calls |-> calls, seen |-> <<>>]
    ELSE LET entry == table.array.pdata[i]
             rest ==
                 IF entry # NULL /\ decide[calls + 1]
                 THEN ForeachRemoveLoop(
                          [table EXCEPT !.array = Compact(table.array, i)],
                          FreeEntry(heap, entry), decide,
                          SlotAfterRemoval(i), calls + 1)
                 ELSE ForeachRemoveLoop(table, heap, decide, i + 1,
                                        IF entry # NULL THEN calls + 1 ELSE calls)
         IN  IF entry # NULL
             THEN [rest EXCEPT !.seen = <<entry>> \o rest.seen]
             ELSE rest

g_hash_table_foreach_remove(table, heap, decide) ==
    IF Unusable(table)
    THEN [table |-> table, heap |-> heap, calls |-> 0, seen |-> <<>>]
    ELSE ForeachRemoveLoop(table, heap, decide, 1, 0)

\* The loop of g_hash_table_destroy from slot i on: free(pdata[i]).
RECURSIVE DestroyLoop(_, _, _)
DestroyLoop(table, heap, i) ==
    IF i > table.array.len THEN [heap |-> heap, freed |-> <<>>]
    ELSE LET entry == table.array.pdata[i]
             rest == DestroyLoop(table, FreeEntry(heap, entry), i + 1)
         IN  [heap |-> rest.heap, freed |-> <<EntryPtr(entry)>> \o rest.freed]

\* g_hash_table_destroy: the heap after the call and the pointers passed to
\* free(), in order.
g_hash_table_destroy(table, heap) ==
    IF table.isnull THEN [heap |-> heap, freed |-> <<>>]
    ELSE IF table.array.isnull
    THEN [heap |-> heap, freed |-> <<Ptr("table", 1)>>]
    ELSE LET r == DestroyLoop(table, heap, 1)
         IN  [heap |-> r.heap,
              freed |-> r.freed \o g_ptr_array_free(table.array, FALSE)
                                \o <<Ptr("table", 1)>>]

\* ghost: the entry records a call freed, in address order, from the heap
\* before and after it.
RECURSIVE EntriesFreed(_, _, _)
EntriesFreed(before, after, e) ==
    IF e > Len(before) THEN <<>>
    ELSE (IF before[e].st # after[e].st THEN <<EntryPtr(e)>> ELSE <<>>)
         \o EntriesFreed(before, after, e + 1)

(***************************************************************************)
(* The table under every sequence of insert, lookup, remove and            *)
(* foreach_remove calls, destroyed at the end.                             *)
(***************************************************************************)
\* ghost: some entry of the table has a key equal to key.
Present(table, heap, key) ==
    /\ ~Unusable(table)
    /\ \E i \in 1..table.array.len :
           Compare(table.compare, heap[table.array.pdata[i]].key, key)

HtLast(op, key, value, found, ok, ret) ==
    [op |-> op, key |-> key, value |-> value, found |-> found,
     ok |-> ok, ret |-> ret]

HtInit ==
    /\ ht \in {g_hash_table_new(f, okTable, okArray) :
                   f \in EqualFuncs, okTable \in BOOLEAN, okArray \in BOOLEAN}
    /\ ht_heap = <<>>
    /\ ht_last = HtLast("new", NULL, NULL, FALSE, TRUE, NULL)
    /\ ht_freed = <<>>

\* The outcomes of the allocations of an insert: malloc and realloc are
\* called only when the table is usable and the key is not present.
InsertAllocs(key) ==
    IF Unusable(ht) \/ Present(ht, ht_heap, key) THEN {TRUE} ELSE BOOLEAN

HtInsert ==
    \E key \in Keys, value \in Values :
      \E okEntry \in InsertAllocs(key), okGrow \in InsertAllocs(key) :
        LET r == g_hash_table_insert(ht, ht_heap, key, value, okEntry, okGrow)
        IN  /\ ht_last.op # "destroy"
            /\ Present(ht, ht_heap, key) \/ Len(ht_heap) < MaxEntries
            /\ ht_freed' = <<>>
            /\ ht' = r.table
            /\ ht_heap' = r.heap
            /\ ht_last' = HtLast("insert", key, value,
                                 Present(ht, ht_heap, key),
                                 ~Unusable(ht) /\ okEntry /\ okGrow, NULL)

HtLookup ==
    \E key \in Keys :
        /\ ht_last.op # "destroy"
        /\ ht_freed' = <<>>
        /\ UNCHANGED <<ht, ht_heap>>
        /\ ht_last' = HtLast("lookup", key, NULL, Present(ht, ht_heap, key),
                             TRUE, g_hash_table_lookup(ht, ht_heap, key))

HtLookupExtended ==
    \E key \in Keys :
        LET r == g_hash_table_lookup_extended(ht, ht_heap, key)
        IN  /\ ht_last.op # "destroy"
            /\ ht_freed' = <<>>
            /\ UNCHANGED <<ht, ht_heap>>
            /\ ht_last' = [op |-> "lookup_extended", key |-> key,
                           value |-> r.value, found |-> Present(ht, ht_heap, key),
                           ok |-> TRUE, ret |-> IF r.ret THEN 1 ELSE 0,
                           orig_key |-> r.orig_key]

HtRemove ==
    \E key \in Keys :
        LET r == g_hash_table_remove(ht, ht_heap, key)
        IN  /\ ht_last.op # "destroy"
            /\ ht_freed' = EntriesFreed(ht_heap, r.heap, 1)
            /\ ht' = r.table
            /\ ht_heap' = r.heap
            /\ ht_last' = HtLast("remove", key, NULL, Present(ht, ht_heap, key),
                                 TRUE, IF r.ret THEN 1 ELSE 0)

HtForeachRemove ==
    \E decide \in [1..ht.array.len -> BOOLEAN] :
        LET r == g_hash_table_foreach_remove(ht, ht_heap, decide)
        IN  /\ ht_last.op # "destroy"
            /\ ht_freed' = EntriesFreed(ht_heap, r.heap, 1)
            /\ ht' = r.table
            /\ ht_heap' = r.heap
            /\ ht_last' = [op |-> "foreach_remove", key |-> NULL,
                           value |-> NULL, found |-> FALSE, ok |-> TRUE,
                           ret |-> r.calls, seen |-> r.seen,
                           decide |-> [c \in 1..r.calls |-> decide[c]]]

\* g_hash_table_destroy(table); the table is gone and not used again.
HtDestroy ==
    LET r == g_hash_table_destroy(ht, ht_heap)
    IN  /\ ht_last.op # "destroy"
        /\ ht_freed' = r.freed
        /\ ht' = NullTable
        /\ ht_heap' = r.heap
        /\ ht_last' = HtLast("destroy", NULL, NULL, FALSE, TRUE, NULL)

(***************************************************************************)
(* GString (mdbfakeglib.c).  Byte i of the C block is str[i+1] here.       *)
(***************************************************************************)
DefaultAlloc == 16

strlen(text) == Len(text.s)

\* The len + 1 bytes memcpy reads from a C string: its bytes and the NUL.
CStr(text) == Append(text.s, NUL)

\* memcpy(block + off, bytes, Len(bytes)), within the block.
Memcpy(block, off, bytes) ==
    [i \in 1..Len(block) |->
        IF off < i /\ i <= off + Len(bytes) THEN bytes[i - off] ELSE block[i]]

\* malloc(n): n bytes not yet written.
Malloc(n) == [i \in 1..n |-> Uninit]

NullString == [isnull |-> TRUE, str |-> <<>>, len |-> 0, allocated_len |-> 0]
MkString(str, len, allocated_len) ==
    [isnull |-> FALSE, str |-> str, len |-> len, allocated_len |-> allocated_len]

g_string_new(init, okString, okStr) ==
    IF ~okString THEN NullString
    ELSE IF ~init.isnull
    THEN LET len == strlen(init)
             allocated_len == len + 1
         IN  IF ~okStr THEN NullString
             ELSE MkString(Memcpy(Malloc(allocated_len), 0, CStr(init)),
                           len, allocated_len)
    ELSE IF ~okStr THEN NullString
         ELSE MkString(Memcpy(Malloc(DefaultAlloc), 0, <<NUL>>), 0, DefaultAlloc)

\* A block for the content without its terminator.
AssignAllocNoNul(len) == len

\* The size g_string_assign reallocates to: realloc(string->str, len + 1).
AssignAlloc(len) == len + 1

\* An assign that empties the buffer before it tries to grow it.
g_string_assign_truncating(string, rval, ok) ==
    IF string.isnull THEN [string |-> string, retnull |-> TRUE]
    ELSE LET len == IF ~rval.isnull THEN strlen(rval) ELSE 0
             grow == len + 1 > string.allocated_len
             emptied == MkString(Memcpy(string.str, 0, <<NUL>>), 0,
                                 string.allocated_len)
         IN  IF grow /\ ~ok THEN [string |-> emptied, retnull |-> TRUE]
             ELSE LET str1 == IF grow THEN Realloc(string.str, AssignAlloc(len))
                              ELSE string.str
                      alloc1 == IF grow THEN AssignAlloc(len)
                                ELSE string.allocated_len
                      str2 == IF ~rval.isnull THEN Memcpy(str1, 0, CStr(rval))
                              ELSE Memcpy(str1, 0, <<NUL>>)
                  IN  [string |-> MkString(str2, len, alloc1),
                       retnull |-> FALSE]

\* g_string_assign: the string after the call and whether it returned NULL.
g_string_assign(string, rval, ok) ==
    IF string.isnull THEN [string |-> string, retnull |-> TRUE]
    ELSE LET len == IF ~rval.isnull THEN strlen(rval) ELSE 0
             grow == len + 1 > string.allocated_len
         IN  IF grow /\ ~ok THEN [string |-> string, retnull |-> TRUE]
             ELSE LET str1 == IF grow THEN Realloc(string.str, AssignAlloc(len))
                              ELSE string.str
                      alloc1 == IF grow THEN AssignAlloc(len)
                                ELSE string.allocated_len
                      str2 == IF ~rval.isnull THEN Memcpy(str1, 0, CStr(rval))
                              ELSE Memcpy(str1, 0, <<NUL>>)
                  IN  [string |-> MkString(str2, len, alloc1),
                       retnull |-> FALSE]

\* An append that copies to the start of the block.
AppendOffsetZero(string) == 0

\* Where g_string_append copies val to: string->str + string->len.
AppendOffset(string) == string.len

\* An append that grows to the exact fit, as assign does.
AppendAllocExact(new_len) == new_len + 1

\* The size g_string_append reallocates to: (new_len + 1) * 2.
AppendAlloc(new_len) == (new_len + 1) * 2

\* g_string_append: the string after the call and whether it returned NULL.
g_string_append(string, val, ok) ==
    IF string.isnull \/ val.isnull
    THEN [string |-> string, retnull |-> string.isnull]
    ELSE LET val_len == strlen(val)
             new_len == string.len + val_len
             grow == new_len + 1 > string.allocated_len
         IN  IF grow /\ ~ok THEN [string |-> string, retnull |-> TRUE]
             ELSE LET str1 == IF grow
                              THEN Realloc(string.str, AppendAlloc(new_len))
                              ELSE string.str
                      alloc1 == IF grow THEN AppendAlloc(new_len)
                                ELSE string.allocated_len
                  IN  [string |-> MkString(
                                      Memcpy(str1, AppendOffset(string), CStr(val)),
                                      new_len, alloc1),
                       retnull |-> FALSE]

(***************************************************************************)
(* The string buffer under every sequence of assign and append calls.      *)
(***************************************************************************)
\* The reference string: assign replaces the content (a NULL text is the
\* empty text), append concatenates (a NULL text appends nothing).
RefStep(ref, op, text) ==
    IF op = "assign" THEN text.s ELSE ref \o text.s

GsInit ==
    \E init \in Texts, okString \in BOOLEAN, okStr \in BOOLEAN :
        /\ gs = g_string_new(init, okString, okStr)
        /\ gs_ref = IF okString /\ okStr THEN init.s ELSE <<>>
        /\ gs_last = [op |-> "new", retnull |-> ~(okString /\ okStr),
                      expect |-> init.s]

GsAssign ==
    \E rval \in Texts, ok \in BOOLEAN :
        LET r == g_string_assign(gs, rval, ok)
            expect == RefStep(gs_ref, "assign", rval)
        IN  /\ gs' = r.string
            /\ gs_ref' = IF r.retnull THEN gs_ref ELSE expect
            /\ gs_last' = [op |-> "assign", retnull |-> r.retnull,
                           expect |-> expect]

GsAppend ==
    \E val \in Texts, ok \in BOOLEAN :
        LET r == g_string_append(gs, val, ok)
            expect == RefStep(gs_ref, "append", val)
        IN  /\ gs.len + strlen(val) <= MaxStrLen
            /\ gs' = r.string
            /\ gs_ref' = IF r.retnull THEN gs_ref ELSE expect
            /\ gs_last' = [op |-> "append", retnull |-> r.retnull,
                           expect |-> expect]

(***************************************************************************)
(* mdbi_rc4 (mdbtools-missing 2.c), one loop iteration per step.  The      *)
(* table s and the buffers are indexed from 0 as in the C code.            *)
(***************************************************************************)
TableSize == 256

\* The key and data bytes the calls are made with.
KeyBytes == {75, 69}
DataBytes == {80, 255}

\* A C array of the elements of a sequence, indexed from 0.
ArrayOf(q) == [x \in 0..(Len(q) - 1) |-> q[x + 1]]

RcKeys == {ArrayOf(q) : q \in SeqsUpTo(KeyBytes, MaxKeyLen) \ {<<>>}}
RcDatas == {ArrayOf(q) : q \in SeqsUpTo(DataBytes, MaxDataLen)}

ArrayLen(a) == Cardinality(DOMAIN a)

\* A keystream combination that is not its own inverse.
Xor8Add(a, b) == (a + b) % 256

\* a ^ b on unsigned char operands.
RECURSIVE XorBits(_, _, _)
XorBits(a, b, n) ==
    IF n = 0 THEN 0
    ELSE (((a % 2) + (b % 2)) % 2) + 2 * XorBits(a \div 2, b \div 2, n - 1)

Xor8(a, b) == XorBits(a, b, 8)

\* A swap that loses the value it saved in t.
SwapLosingSaved(s, i, j) == [s EXCEPT ![i] = s[j]]

\* t = s[i]; s[i] = s[j]; s[j] = (unsigned char)t;
Swap(s, i, j) == [s EXCEPT ![i] = s[j], ![j] = s[i]]

RcCall(key, data) ==
    [pc |-> "init", key |-> key, key_len |-> ArrayLen(key),
     data |-> data, data_len |-> ArrayLen(data),
     s |-> [x \in 0..(TableSize - 1) |-> Uninit], i |-> 0, j |-> 0, k |-> 0]

RcInit ==
    \E key \in RcKeys, data \in RcDatas :
        /\ rc = RcCall(key, data)
        /\ rc_hist = [pass |-> 1, orig |-> data, mid |-> data]

\* for (i = 0; i < 256; i++) s[i] = (unsigned char)i;  j = 0;
RcFill ==
    /\ rc.pc = "init"
    /\ rc' = [rc EXCEPT !.s = [x \in 0..(TableSize - 1) |-> x],
                        !.i = 0, !.j = 0, !.pc = "ksa"]
    /\ UNCHANGED rc_hist

\* One iteration of the key-scheduling loop.
RcKsaStep ==
    /\ rc.pc = "ksa" /\ rc.i < TableSize
    /\ LET j1 == (rc.j + rc.s[rc.i] + rc.key[rc.i % rc.key_len]) % 256
       IN  rc' = [rc EXCEPT !.j = j1, !.s = Swap(rc.s, rc.i, j1),
                            !.i = rc.i + 1]
    /\ UNCHANGED rc_hist

\* The key-scheduling loop ends: i = j = 0; k = 0.
RcKsaEnd ==
    /\ rc.pc = "ksa" /\ rc.i = TableSize
    /\ rc' = [rc EXCEPT !.i = 0, !.j = 0, !.k = 0, !.pc = "prga"]
    /\ UNCHANGED rc_hist

\* One iteration of the keystream loop.
RcPrgaStep ==
    /\ rc.pc = "prga" /\ rc.k < rc.data_len
    /\ LET i1 == (rc.i + 1) % 256
           j1 == (rc.j + rc.s[i1]) % 256
           s1 == Swap(rc.s, i1, j1)
       IN  rc' = [rc EXCEPT
                     !.i = i1, !.j = j1, !.s = s1,
                     !.data[rc.k] = Xor8(rc.data[rc.k],
                                         s1[(s1[i1] + s1[j1]) % 256]),
                     !.k = rc.k + 1]
    /\ UNCHANGED rc_hist

\* The keystream loop ends and mdbi_rc4 returns.
RcReturn ==
    /\ rc.pc = "prga" /\ rc.k = rc.data_len
    /\ rc' = [rc EXCEPT !.pc = "done"]
    /\ UNCHANGED rc_hist

\* The caller applies mdbi_rc4 again, with the same key, to the data the
\* first call left.
RcAgain ==
    /\ rc.pc = "done" /\ rc_hist.pass = 1
    /\ rc' = RcCall(rc.key, rc.data)
    /\ rc_hist' = [rc_hist EXCEPT !.pass = 2, !.mid = rc.data]

(***************************************************************************)
(* g_strsplit with g_strdup and g_strndup (mdbfakeglib.c).  A pointer into *)
(* the haystack is its offset from the start, NoMatch the NULL strstr      *)
(* returns.                                                                *)
(***************************************************************************)
\* The bytes the split strings are made of ('a' and ',').
SplitChars == {97, 44}

NoMatch == -1

\* strstr(haystack + p, needle), needle not empty: the offset of its first
\* occurrence at or after offset p.
Strstr(haystack, p, needle) ==
    LET n == Len(needle)
        at == {q \in p..(Len(haystack) - n) :
                  \A x \in 1..n : haystack[q + x] = needle[x]}
    IN  IF at = {} THEN NoMatch
        ELSE CHOOSE q \in at : \A r \in at : q <= r

\* The C string that starts at offset p of the haystack.
StrAt(haystack, p) == SubSeq(haystack, p + 1, Len(haystack))

\* g_strdup(src): a copy, or NULL when src is NULL or malloc fails.
g_strdup(src, ok) ==
    IF src.isnull THEN NullText
    ELSE IF ok THEN Text(src.s) ELSE NullText

\* The C string in a block of bytes: the bytes before its first NUL.
RECURSIVE UpToNul(_)
UpToNul(bytes) ==
    IF bytes = <<>> \/ Head(bytes) = NUL THEN <<>>
    ELSE <<Head(bytes)>> \o UpToNul(Tail(bytes))

\* g_strndup(src, len): malloc(len + 1), memcpy(dest, src, len),
\* dest[len] = '\0'; src is the string and the NUL that ends it.
g_strndup(src, len, ok) ==
    IF src.isnull THEN NullText
    ELSE IF ~ok THEN NullText
    ELSE LET mem == CStr(src)
             dest == [x \in 1..(len + 1) |->
                         IF x = len + 1 THEN NUL
                         ELSE IF x <= Len(mem) THEN mem[x] ELSE Uninit]
         IN  Text(UpToNul(dest))

\* The loop that counts the tokens:
\* while ((p = strstr(p, needle)) != NULL && (max_tokens <= 0 || count < max_tokens))
RECURSIVE CountLoop(_, _, _, _, _)
CountLoop(haystack, needle, max_tokens, p, count) ==
    LET q == Strstr(haystack, p, needle)
    IN  IF q # NoMatch /\ (max_tokens <= 0 \/ count < max_tokens)
        THEN CountLoop(haystack, needle, max_tokens, q + Len(needle), count + 1)
        ELSE count

\* The cap test with the bound off by one.
CapReachedLate(max_tokens, i) == max_tokens > 0 /\ i = max_tokens

\* max_tokens > 0 && i == max_tokens - 1
CapReached(max_tokens, i) == max_tokens > 0 /\ i = max_tokens - 1

\* A step past one byte of the needle only.
AdvanceOneByte(next, needle_len) == next + 1

\* p = next + needle_len
Advance(next, needle_len) == next + needle_len

\* The loop that cuts the tokens, from token i on; fails holds the indices
\* of the tokens whose copy cannot be allocated.
RECURSIVE SplitLoop(_, _, _, _, _, _, _, _)
SplitLoop(haystack, needle, max_tokens, count, fails, result, p, i) ==
    IF i >= count THEN result
    ELSE LET next == Strstr(haystack, p, needle)
         IN  IF next = NoMatch \/ CapReached(max_tokens, i)
             THEN [result EXCEPT
                      !.v[i + 1] = g_strdup(Text(StrAt(haystack, p)),
                                            i \notin fails),
                      !.oom = result.oom \/ i \in fails]
             ELSE SplitLoop(haystack, needle, max_tokens, count, fails,
                      [result EXCEPT
                          !.v[i + 1] = g_strndup(Text(StrAt(haystack, p)),
                                                 next - p, i \notin fails),
                          !.oom = result.oom \/ i \in fails],
                      Advance(next, Len(needle)), i + 1)

\* What g_strsplit returns: NULL, or the vector of count + 1 pointers that
\* calloc zeroed and the loop filled; oom: some allocation failed.
NullVector(oom) == [isnull |-> TRUE, v |-> <<>>, oom |-> oom]

g_strsplit(haystack, needle, max_tokens, okVector, fails) ==
    IF haystack.isnull \/ needle.isnull THEN NullVector(FALSE)
    ELSE IF strlen(needle) = 0 THEN NullVector(FALSE)
    ELSE LET count == CountLoop(haystack.s, needle.s, max_tokens, 0, 1)
         IN  IF ~okVector THEN NullVector(TRUE)
             ELSE SplitLoop(haystack.s, needle.s, max_tokens, count, fails,
                            [isnull |-> FALSE,
                             v |-> [x \in 1..(count + 1) |-> NullText],
                             oom |-> FALSE],
                            0, 0)

(***************************************************************************)
(* One call of g_strsplit on every haystack, needle and cap.               *)
(***************************************************************************)
Haystacks == {Text(q) : q \in SeqsUpTo(SplitChars, MaxHayLen)} \cup {NullText}
Needles == {Text(q) : q \in SeqsUpTo(SplitChars, MaxNeedleLen)} \cup {NullText}

SpInit ==
    \E haystack \in Haystacks, needle \in Needles,
       max_tokens \in (-1)..MaxTokens :
        sp = [pc |-> "call", haystack |-> haystack, needle |-> needle,
              max_tokens |-> max_tokens, result |-> NullVector(FALSE)]

SpSplit ==
    \E okVector \in BOOLEAN, fails \in SUBSET (0..MaxHayLen) :
        /\ sp.pc = "call"
        /\ sp' = [sp EXCEPT
                     !.pc = "ret",
                     !.result = g_strsplit(sp.haystack, sp.needle,
                                           sp.max_tokens, okVector, fails)]

(***************************************************************************)
(* mdb_unicode2ascii and mdb_ascii2unicode (mdbtools-missing 2.c).         *)
(* Buffers are indexed from 0.  The memory at dest is the dlen bytes of    *)
(* the buffer and the two bytes that follow it; writes collects every      *)
(* index a call stores to, inside the buffer or not.                       *)
(***************************************************************************)
\* The bytes of the inputs: NUL, 'A', 0x7f, 0xc8.
ConvBytes == {0, 65, 127, 200}

QuestionMark == 63

\* A char * argument: NULL, or a pointer to the bytes mem.
NullBuf == [isnull |-> TRUE, mem |-> ArrayOf(<<>>)]
Buf(mem) == [isnull |-> FALSE, mem |-> mem]

\* A destination of dlen bytes, nothing written yet.
FreshDest(dlen) == Buf([x \in 0..(dlen + 1) |-> Uninit])

\* dest[idx] = byte
Store(out, idx, byte) ==
    [out EXCEPT !.mem = [x \in DOMAIN out.mem |->
                            IF x = idx THEN byte ELSE out.mem[x]],
                !.writes = out.writes \cup {idx}]

\* A loop test that leaves no room for the terminator.
U2ARoomNoNul(j, dlen) == j < dlen

\* j < dlen - 1 (dlen > 0 here: the call returned before when dlen == 0)
U2ARoom(j, dlen) == j < dlen - 1

\* A loop step of one byte instead of one 2-byte unit.
U2AStepOne(i) == i + 1

\* i += 2
U2AStep(i) == i + 2

\* A conversion that replaces every byte above 127 as well.
U2AByteAsciiOnly(low, high) ==
    IF high = 0 /\ low < 128 THEN low ELSE QuestionMark

\* The byte mdb_unicode2ascii stores for the unit (low, high).
U2AByte(low, high) ==
    IF high = 0 /\ low < 128 THEN low
    ELSE IF high = 0 /\ low # 0 THEN low
    ELSE QuestionMark

\* The loop of mdb_unicode2ascii from source index i on, then the
\* terminator; out is [mem, writes, j].
RECURSIVE U2ALoop(_, _, _, _, _)
U2ALoop(src, slen, dlen, out, i) ==
    IF i < slen /\ U2ARoom(out.j, dlen)
    THEN LET low == src[i]
             high == IF i + 1 < slen THEN src[i + 1] ELSE 0
         IN  U2ALoop(src, slen, dlen,
                     [Store(out, out.j, U2AByte(low, high)) EXCEPT !.j = out.j + 1],
                     U2AStep(i))
    ELSE Store(out, out.j, NUL)

\* mdb_unicode2ascii: the memory at dest, the indices written, the value
\* returned (out.j).
mdb_unicode2ascii(src, slen, dest, dlen) ==
    LET out0 == [mem |-> dest.mem, writes |-> {}, j |-> 0]
    IN  IF src.isnull \/ dest.isnull \/ dlen = 0
        THEN IF ~dest.isnull /\ dlen > 0 THEN Store(out0, 0, NUL) ELSE out0
        ELSE U2ALoop(src.mem, slen, dlen, out0, 0)

\* The loop of mdb_ascii2unicode from source index i on.
RECURSIVE A2ULoop(_, _, _, _, _)
A2ULoop(src, slen, dlen, out, i) ==
    IF i < slen /\ out.j < dlen - 1
    THEN IF out.j + 1 < dlen
         THEN A2ULoop(src, slen, dlen,
                      [Store(Store(out, out.j, src[i]), out.j + 1, 0)
                           EXCEPT !.j = out.j + 2],
                      i + 1)
         ELSE A2ULoop(src, slen, dlen, out, i + 1)
    ELSE out

mdb_ascii2unicode(src, slen, dest, dlen) ==
    LET out0 == [mem |-> dest.mem, writes |-> {}, j |-> 0]
    IN  IF src.isnull \/ dest.isnull \/ dlen = 0 THEN out0
        ELSE A2ULoop(src.mem, slen, dlen, out0, 0)

(***************************************************************************)
(* The transcoder calls: mdb_unicode2ascii on any source, or on what       *)
(* mdb_ascii2unicode produced with the length it returned.                 *)
(***************************************************************************)
CvSources(n) == {Buf(ArrayOf(q)) : q \in SeqsUpTo(ConvBytes, n)} \cup {NullBuf}

CvDests(dlen) == {FreshDest(dlen), NullBuf}

CvState(pc, via, orig, src, slen) ==
    [pc |-> pc, via |-> via, orig |-> orig, src |-> src, slen |-> slen,
     dlen1 |-> 0, dest |-> NullBuf, dlen |-> 0, writes |-> {}, ret |-> 0]

CvInit ==
    \/ \E src \in CvSources(MaxNarrowLen) :
           cv = CvState("narrow", "roundtrip", src, src, ArrayLen(src.mem))
    \/ \E src \in CvSources(MaxWideLen) :
           cv = CvState("wide", "direct", src, src, ArrayLen(src.mem))

\* mdb_ascii2unicode(mdb, src, slen, dest, dlen); its output and the length
\* it returned are the source of the next call.
CvAscii2Unicode ==
    \E dlen \in 0..MaxDlen :
        \E dest \in CvDests(dlen) :
            LET out == mdb_ascii2unicode(cv.src, cv.slen, dest, dlen)
            IN  /\ cv.pc = "narrow"
                /\ cv' = [cv EXCEPT !.pc = "wide",
                                    !.src = [dest EXCEPT !.mem = out.mem],
                                    !.slen = out.j,
                                    !.dlen1 = dlen,
                                    !.dest = [dest EXCEPT !.mem = out.mem],
                                    !.dlen = dlen,
                                    !.writes = out.writes,
                                    !.ret = out.j]

\* mdb_unicode2ascii(mdb, src, slen, dest, dlen)
CvUnicode2Ascii ==
    \E dlen \in 0..MaxDlen :
        \E dest \in CvDests(dlen) :
            LET out == mdb_unicode2ascii(cv.src, cv.slen, dest, dlen)
            IN  /\ cv.pc = "wide"
                /\ cv' = [cv EXCEPT !.pc = "done",
                                    !.dest = [dest EXCEPT !.mem = out.mem],
                                    !.dlen = dlen,
                                    !.writes = out.writes,
                                    !.ret = out.j]

(***************************************************************************)
(* GList (mdbfakeglib.c).  A GList * is the address of a node in gl_heap,  *)
(* or NULL; malloc returns the next unused address.  A pointer passed to   *)
(* free() is logged as [kind, at]: a node address or a payload.            *)
(***************************************************************************)
MkNode(data, next, prev) ==
    [data |-> data, next |-> next, prev |-> prev, frees |-> 0]

\* free(node)
FreeNode(heap, n) == [heap EXCEPT ![n].frees = heap[n].frees + 1]

RECURSIVE g_list_last(_, _)
g_list_last(heap, list) ==
    IF list = NULL THEN NULL
    ELSE IF heap[list].next # NULL THEN g_list_last(heap, heap[list].next)
    ELSE list

\* g_list_append: the heap after the call and the head returned; ok is
\* the outcome of malloc.
g_list_append(heap, list, data, ok) ==
    LET new_node == Len(heap) + 1
    IN  IF ~ok THEN [heap |-> heap, ret |-> list]
        ELSE IF list = NULL
        THEN [heap |-> Append(heap, MkNode(data, NULL, NULL)), ret |-> new_node]
        ELSE LET last == g_list_last(heap, list)
                 linked == [heap EXCEPT ![last].next = new_node]
             IN  [heap |-> Append(linked, MkNode(data, NULL, last)),
                  ret |-> list]

\* A removal that leaves the successor pointing back at the removed node.
RepairPrevSkipped(heap, node) == heap

\* if (node->next) node->next->prev = node->prev;
RepairPrev(heap, node) ==
    IF heap[node].next # NULL
    THEN [heap EXCEPT ![heap[node].next].prev = heap[node].prev]
    ELSE heap

\* if (node->prev) node->prev->next = node->next;
RepairNext(heap, node) ==
    IF heap[node].prev # NULL
    THEN [heap EXCEPT ![heap[node].prev].next = heap[node].next]
    ELSE heap

\* A scan that returns its cursor, NULL, when nothing matched.
RECURSIVE RemoveWalkReturnsCursor(_, _, _, _)
RemoveWalkReturnsCursor(heap, list, node, data) ==
    IF node = NULL THEN [heap |-> heap, ret |-> node, freed |-> <<>>]
    ELSE IF heap[node].data = data
    THEN [heap |-> FreeNode(RepairPrev(RepairNext(heap, node), node), node),
          ret |-> IF node = list THEN heap[node].next ELSE list,
          freed |-> <<NodePtr(node)>>]
    ELSE RemoveWalkReturnsCursor(heap, list, heap[node].next, data)

\* A scan that unlinks the last match instead of returning at the first.
RECURSIVE RemoveWalkLast(_, _, _, _)
RemoveWalkLast(heap, list, node, data) ==
    IF node = NULL THEN [heap |-> heap, ret |-> list, freed |-> <<>>]
    ELSE LET rest == RemoveWalkLast(heap, list, heap[node].next, data)
         IN  IF rest.freed # <<>> \/ heap[node].data # data THEN rest
             ELSE [heap |-> FreeNode(RepairPrev(RepairNext(heap, node), node), node),
                   ret |-> IF node = list THEN heap[node].next ELSE list,
                   freed |-> <<NodePtr(node)>>]

\* The while loop of g_list_remove from node on: the heap after, the head
\* returned, the pointers freed.
RECURSIVE RemoveWalk(_, _, _, _)
RemoveWalk(heap, list, node, data) ==
    IF node = NULL THEN [heap |-> heap, ret |-> list, freed |-> <<>>]
    ELSE IF heap[node].data = data
    THEN [heap |-> FreeNode(RepairPrev(RepairNext(heap, node), node), node),
          ret |-> IF node = list THEN heap[node].next ELSE list,
          freed |-> <<NodePtr(node)>>]
    ELSE RemoveWalk(heap, list, heap[node].next, data)

g_list_remove(heap, list, data) == RemoveWalk(heap, list, list, data)

\* g_list_free: the heap after the call and the pointers freed.
RECURSIVE g_list_free(_, _)
g_list_free(heap, list) ==
    IF list = NULL THEN [heap |-> heap, freed |-> <<>>]
    ELSE LET next == heap[list].next
             rest == g_list_free(FreeNode(heap, list), next)
         IN  [heap |-> rest.heap, freed |-> <<NodePtr(list)>> \o rest.freed]

GlLast(op, arg, ok, freed) ==
    [op |-> op, arg |-> arg, ok |-> ok, head |-> gl, heap |-> gl_heap,
     freed |-> freed]

\* GList *list = NULL;
GlInit ==
    /\ gl = NULL
    /\ gl_heap = <<>>
    /\ gl_last = [op |-> "init", arg |-> NULL, ok |-> TRUE, head |-> NULL,
                  heap |-> <<>>, freed |-> <<>>]

\* list = g_list_append(list, data);
GlAppend ==
    \E data \in Handles, ok \in BOOLEAN :
        LET r == g_list_append(gl_heap, gl, data, ok)
        IN  /\ gl_last.op # "free"
            /\ ok => Len(gl_heap) < MaxNodes
            /\ gl' = r.ret
            /\ gl_heap' = r.heap
            /\ gl_last' = GlLast("append", data, ok, <<>>)

\* list = g_list_remove(list, data);
GlRemove ==
    \E data \in Handles :
        LET r == g_list_remove(gl_heap, gl, data)
        IN  /\ gl_last.op # "free"
            /\ gl' = r.ret
            /\ gl_heap' = r.heap
            /\ gl_last' = GlLast("remove", data, TRUE, r.freed)

\* g_list_free(list); the list is not used again.
GlFree ==
    LET r == g_list_free(gl_heap, gl)
    IN  /\ gl_last.op # "free"
        /\ gl' = gl
        /\ gl_heap' = r.heap
        /\ gl_last' = GlLast("free", NULL, TRUE, r.freed)

(***************************************************************************)
(* g_ptr_array_sort and g_hash_table_foreach_remove, one pass of their     *)
(* loops at a time.  i and j are the C indices: slot i is pdata[i + 1].    *)
(* What the comparator and the predicate return is an input of each call.  *)
(***************************************************************************)
\* The arrays handed to g_ptr_array_sort, NULL included.
SortArrays ==
    {MkArray(q, Len(q)) : q \in SeqsUpTo(Handles, MaxSortLen)} \cup {NullArray}

\* A callback argument: NULL or a function.
Callbacks == {NULL, 1}

\* for (guint i = 0; i < array->len - 1; i++)
SortOuterMore(array, i) == i < array.len - 1

\* An inner loop that stops one comparison early.
SortInnerMoreShort(array, i, j) == j < array.len - i - 2

\* for (guint j = 0; j < array->len - i - 1; j++)
SortInnerMore(array, i, j) == j < array.len - i - 1

\* temp = pdata[j]; pdata[j] = pdata[j + 1]; pdata[j + 1] = temp;
SwapSlots(pdata, j) ==
    [pdata EXCEPT ![j + 1] = pdata[j + 2], ![j + 2] = pdata[j + 1]]

\* g_ptr_array_sort(array, func) is called.
LpSortInit ==
    \E array \in SortArrays, func \in Callbacks :
        lp = [kind |-> "sort", pc |-> "call", array |-> array, func |-> func,
              i |-> 0, j |-> 0, before |-> Live(array), log |-> <<>>]

\* if (!array || !func || array->len <= 1) return;
LpSortCall ==
    /\ lp.kind = "sort" /\ lp.pc = "call"
    /\ lp' = IF lp.array.isnull \/ lp.func = NULL \/ lp.array.len <= 1
             THEN [lp EXCEPT !.pc = "done"]
             ELSE [lp EXCEPT !.pc = "outer", !.i = 0]

\* The test of the outer loop; a pass starts with j = 0.
LpSortOuter ==
    /\ lp.kind = "sort" /\ lp.pc = "outer"
    /\ lp' = IF SortOuterMore(lp.array, lp.i)
             THEN [lp EXCEPT !.pc = "inner", !.j = 0]
             ELSE [lp EXCEPT !.pc = "done"]

\* One comparison: if (func(pdata[j], pdata[j + 1]) > 0) swap; j++.
LpSortCompare ==
    \E gt \in BOOLEAN :
        LET a == lp.array.pdata[lp.j + 1]
            b == lp.array.pdata[lp.j + 2]
        IN  /\ lp.kind = "sort" /\ lp.pc = "inner"
            /\ SortInnerMore(lp.array, lp.i, lp.j)
            /\ lp' = [lp EXCEPT
                        !.array.pdata = IF gt THEN SwapSlots(@, lp.j) ELSE @,
                        !.j = @ + 1,
                        !.log = Append(@, <<a, b, gt>>)]

\* The inner loop is over: i++.
LpSortInnerEnd ==
    /\ lp.kind = "sort" /\ lp.pc = "inner"
    /\ ~SortInnerMore(lp.array, lp.i, lp.j)
    /\ lp' = [lp EXCEPT !.pc = "outer", !.i = @ + 1]

\* The table that n inserts of distinct keys build, with its entries.
RECURSIVE TableOf(_)
TableOf(n) ==
    IF n = 0
    THEN [table |-> g_hash_table_new("identity", TRUE, TRUE), heap |-> <<>>]
    ELSE LET r == TableOf(n - 1)
         IN  g_hash_table_insert(r.table, r.heap, n, 1, TRUE, TRUE)

\* The tables handed to g_hash_table_foreach_remove: NULL, one whose array
\* could not be allocated, and those of 0..MaxEntries entries.
FrTables ==
    {TableOf(n) : n \in 0..MaxEntries}
        \cup {[table |-> g_hash_table_new("identity", okTable, FALSE),
               heap |-> <<>>] : okTable \in BOOLEAN}

\* g_hash_table_foreach_remove(table, function, user_data) is called.
LpFrInit ==
    \E t \in FrTables, function \in Callbacks :
        lp = [kind |-> "foreach_remove", pc |-> "call", table |-> t.table,
              heap |-> t.heap, function |-> function, i |-> 0,
              len0 |-> t.table.array.len, calls |-> 0, removed |-> <<>>]

\* if (!table || !table->array || !function) return;
LpFrCall ==
    /\ lp.kind = "foreach_remove" /\ lp.pc = "call"
    /\ lp' = IF Unusable(lp.table) \/ lp.function = NULL
             THEN [lp EXCEPT !.pc = "done"]
             ELSE [lp EXCEPT !.pc = "loop", !.i = 0]

\* One pass of for (guint i = 0; i < table->array->len; ): the predicate
\* is called on a non-NULL entry; on TRUE the entry is freed and the array
\* compacted, otherwise i++.
LpFrPass ==
    \E remove \in BOOLEAN :
        LET entry == lp.table.array.pdata[lp.i + 1]
        IN  /\ lp.kind = "foreach_remove" /\ lp.pc = "loop"
            /\ lp.i < lp.table.array.len
            /\ lp' = IF entry # NULL /\ remove
                     THEN [lp EXCEPT
                             !.heap = FreeEntry(@, entry),
                             !.table.array = Compact(@, lp.i + 1),
                             !.i = SlotAfterRemoval(@),
                             !.calls = @ + 1,
                             !.removed = Append(@, entry)]
                     ELSE [lp EXCEPT
                             !.i = @ + 1,
                             !.calls = IF entry # NULL THEN @ + 1 ELSE @]

\* i < table->array->len is false: the loop and the function return.
LpFrReturn ==
    /\ lp.kind = "foreach_remove" /\ lp.pc = "loop"
    /\ ~(lp.i < lp.table.array.len)
    /\ lp' = [lp EXCEPT !.pc = "done"]

(***************************************************************************)
(* Single calls on the arguments a caller may pass: NULL pointers and      *)
(* lengths beyond the end of the string included.  A call that reads,      *)
(* writes or calls through NULL, or reads past the end of its source, has  *)
(* undefined behaviour: it crashes or returns, with any result.            *)
(***************************************************************************)
FnCall(op, args, nullarg, nullderef, reads, outcome, ret, sentinel) ==
    [op |-> op, args |-> args, nullarg |-> nullarg, nullderef |-> nullderef,
     reads |-> reads, outcome |-> outcome, ret |-> ret, sentinel |-> sentinel]

\* No call has crashed: the program is still running.
FnRunning == IF fn.op = "idle" THEN TRUE ELSE fn.outcome = "returned"

\* What a call can do: with defined behaviour it returns ret; otherwise it
\* crashes (ret is then never delivered) or returns any of the values of
\* its result type.
Outcomes(undefined, ret, any) ==
    IF undefined
    THEN {[outcome |-> "crashed", ret |-> ret]}
             \cup {[outcome |-> "returned", ret |-> r] : r \in any}
    ELSE {[outcome |-> "returned", ret |-> ret]}

\* The indices of src that memcpy(dest, src, len) reads.
MemcpyReads(len) == 0..(len - 1)

\* g_memdup(src, len): dest = malloc(len); if (dest) memcpy(dest, src, len);
\* src is not tested.  [ret, reads, nullderef]
g_memdup(src, len, ok) ==
    IF ~ok THEN [ret |-> NullText, reads |-> {}, nullderef |-> FALSE]
    ELSE [ret |-> IF src.isnull THEN Text([x \in 1..len |-> Uninit])
                  ELSE Text(SubSeq(CStr(src), 1, len)),
          reads |-> MemcpyReads(len),
          nullderef |-> src.isnull /\ len > 0]

\* The blocks handed to g_memdup: a text with its terminator, or NULL.
FnMemdup ==
    \E src \in Texts, ok \in BOOLEAN :
      \E len \in 0..(IF src.isnull THEN MaxTextLen ELSE strlen(src) + 1) :
        LET r == g_memdup(src, len, ok)
        IN  \E o \in Outcomes(r.nullderef, r.ret, {r.ret}) :
                /\ FnRunning
                /\ fn' = FnCall("g_memdup", <<src, len, ok>>, src.isnull,
                                 r.nullderef, r.reads, o.outcome, o.ret, NullText)

\* strcmp(str1, str2) reads through both pointers, untested.
StrcmpDerefsNull(str1, str2) == str1 = NULL \/ str2 = NULL

\* g_str_equal(str1, str2) on any two key pointers, NULL included.
FnStrEqual ==
    \E str1 \in Keys \cup {NULL}, str2 \in Keys \cup {NULL} :
        LET ub == StrcmpDerefsNull(str1, str2)
        IN  \E o \in Outcomes(ub, IF ub THEN FALSE ELSE g_str_equal(str1, str2),
                              BOOLEAN) :
                /\ FnRunning
                /\ fn' = FnCall("g_str_equal", <<str1, str2>>, ub, ub, {},
                                 o.outcome, o.ret, FALSE)

\* A NULL function pointer handed over as equal_func.
NullFunc == "NULL"

EqualFuncsOrNull == EqualFuncs \cup {NullFunc}

\* g_hash_table_new stores equal_func untested: the table it makes, empty
\* or with the one entry an insert can give it without comparing.
FnTable(equal_func, okTable, okArray, n) ==
    LET t == g_hash_table_new(equal_func, okTable, okArray)
    IN  IF n = 0 THEN [table |-> t, heap |-> <<>>]
        ELSE g_hash_table_insert(t, <<>>, 1, 1, TRUE, TRUE)

\* The scan of g_hash_table_lookup evaluates
\* entry && table->compare(entry->key, key): it calls table->compare at the
\* first slot that holds an entry.
ScanCallsCompare(table) ==
    ~Unusable(table)
        /\ \E i \in 1..table.array.len : table.array.pdata[i] # NULL

\* g_hash_table_lookup(table, key) on a table made by
\* g_hash_table_new(NULL, equal_func), NULL equal_func included.
FnHashLookup ==
    \E equal_func \in EqualFuncsOrNull, okTable \in BOOLEAN,
       okArray \in BOOLEAN, n \in 0..1, key \in Keys :
        LET t == FnTable(equal_func, okTable, okArray, n)
            ub == equal_func = NullFunc /\ ScanCallsCompare(t.table)
            value == IF ub THEN NULL
                     ELSE g_hash_table_lookup(t.table, t.heap, key)
        IN  \E o \in Outcomes(ub, value, Values \cup {NULL}) :
                /\ FnRunning
                /\ fn' = FnCall("g_hash_table_lookup",
                                 <<equal_func, okTable, okArray, n, key>>,
                                 equal_func = NullFunc \/ t.table.isnull, ub, {},
                                 o.outcome, o.ret, NULL)

\* mdbi_rc4(key, key_len, data, data_len) with key_len >= 1: the key
\* scheduling reads key[i % key_len] and the keystream loop data[k], neither
\* pointer tested.
Rc4DerefsNull(key, key_len, data, data_len) ==
    key.isnull \/ (data.isnull /\ data_len > 0)

FnRc4 ==
    \E key \in {NullBuf} \cup {Buf(k) : k \in RcKeys},
       data \in {NullBuf} \cup {Buf(d) : d \in RcDatas} :
      \E key_len \in (IF key.isnull THEN 1..MaxKeyLen
                      ELSE {ArrayLen(key.mem)}),
         data_len \in (IF data.isnull THEN 0..MaxDataLen
                       ELSE {ArrayLen(data.mem)}) :
        LET ub == Rc4DerefsNull(key, key_len, data, data_len)
        IN  \E o \in Outcomes(ub, NULL, {NULL}) :
                /\ FnRunning
                /\ fn' = FnCall("mdbi_rc4", <<key, key_len, data, data_len>>,
                                 key.isnull \/ data.isnull, ub, {},
                                 o.outcome, o.ret, NULL)

\* g_strdup(src): if (!src) return NULL; strlen(src) + 1 bytes are read.
FnStrdup ==
    \E src \in Texts, ok \in BOOLEAN :
        FnRunning /\ fn' = FnCall("g_strdup", <<src, ok>>, src.isnull, FALSE,
                                  IF src.isnull THEN {} ELSE MemcpyReads(strlen(src) + 1),
                                  "returned", g_strdup(src, ok), NullText)

\* g_strndup(src, len): if (!src) return NULL; dest = malloc(len + 1);
\* memcpy(dest, src, len) reads len bytes whatever the length of src.  A
\* read past the terminator of src is a read outside the string.
StrndupReads(src, len, ok) ==
    IF src.isnull \/ ~ok THEN {} ELSE MemcpyReads(len)

FnStrndup ==
    \E src \in Texts, ok \in BOOLEAN, len \in 0..(MaxTextLen + 2) :
        LET reads == StrndupReads(src, len, ok)
            ub == \E x \in reads : x > strlen(src)
            ret == g_strndup(src, len, ok)
        IN  \E o \in Outcomes(ub, ret, {ret}) :
                /\ FnRunning
                /\ fn' = FnCall("g_strndup", <<src, len, ok>>, src.isnull, FALSE,
                                 reads, o.outcome, o.ret, NullText)

\* g_locale_to_utf8(opsysstring, len, ...): if (!opsysstring) return NULL;
\* len == (size_t)-1 stands for strlen(opsysstring); then
\* g_strndup(opsysstring, len) with the len of the caller.
LenOfString == -1

FnLocaleToUtf8 ==
    \E src \in Texts, ok \in BOOLEAN,
       len \in {LenOfString} \cup 0..(MaxTextLen + 2) :
        LET len1 == IF ~src.isnull /\ len = LenOfString THEN strlen(src)
                    ELSE len
            reads == StrndupReads(src, len1, ok)
            ub == \E x \in reads : x > strlen(src)
            ret == IF src.isnull THEN NullText ELSE g_strndup(src, len1, ok)
        IN  \E o \in Outcomes(ub, ret, {ret}) :
                /\ FnRunning
                /\ fn' = FnCall("g_locale_to_utf8", <<src, len, ok>>, src.isnull,
                                 FALSE, reads, o.outcome, o.ret, NullText)

(***************************************************************************)
(* The specifications, one per component.                                  *)
(***************************************************************************)
ArrIdle ==
    /\ arr = NullArray /\ arr_hist = <<>> /\ arr_last = IdleOp
    /\ arr_freed = <<>> /\ arr_fe = NoForeach
HtIdle ==
    ht = NullTable /\ ht_heap = <<>> /\ ht_last = IdleOp /\ ht_freed = <<>>

GsIdle == gs = NullString /\ gs_ref = <<>> /\ gs_last = IdleOp
RcIdle == rc = Idle /\ rc_hist = Idle
SpIdle == sp = Idle
CvIdle == cv = Idle
GlIdle == gl = NULL /\ gl_heap = <<>> /\ gl_last = IdleOp
LpIdle == lp = Idle
FnIdle == fn = IdleOp

InitArray ==
    ArrInit /\ HtIdle /\ GsIdle /\ RcIdle /\ SpIdle /\ CvIdle /\ GlIdle /\ LpIdle /\ FnIdle
NextArray ==
    \/ ArrAdd /\ UNCHANGED <<htVars, gsVars, rcVars, spVars, cvVars, glVars, lpVars, fnVars>>
    \/ ArrRemove /\ UNCHANGED <<htVars, gsVars, rcVars, spVars, cvVars, glVars, lpVars, fnVars>>
    \/ ArrFree /\ UNCHANGED <<htVars, gsVars, rcVars, spVars, cvVars, glVars, lpVars, fnVars>>
    \/ ArrForeachCall /\ UNCHANGED <<htVars, gsVars, rcVars, spVars, cvVars, glVars, lpVars, fnVars>>
    \/ ArrForeachVisit /\ UNCHANGED <<htVars, gsVars, rcVars, spVars, cvVars, glVars, lpVars, fnVars>>
    \/ ArrForeachReturn /\ UNCHANGED <<htVars, gsVars, rcVars, spVars, cvVars, glVars, lpVars, fnVars>>
SpecArray == InitArray /\ [][NextArray]_vars

InitHash ==
    HtInit /\ ArrIdle /\ GsIdle /\ RcIdle /\ SpIdle /\ CvIdle /\ GlIdle /\ LpIdle /\ FnIdle
NextHash ==
    \/ HtInsert /\ UNCHANGED <<arrVars, gsVars, rcVars, spVars, cvVars, glVars, lpVars, fnVars>>
    \/ HtLookup /\ UNCHANGED <<arrVars, gsVars, rcVars, spVars, cvVars, glVars, lpVars, fnVars>>
    \/ HtLookupExtended /\ UNCHANGED <<arrVars, gsVars, rcVars, spVars, cvVars, glVars, lpVars, fnVars>>
    \/ HtRemove /\ UNCHANGED <<arrVars, gsVars, rcVars, spVars, cvVars, glVars, lpVars, fnVars>>
    \/ HtForeachRemove /\ UNCHANGED <<arrVars, gsVars, rcVars, spVars, cvVars, glVars, lpVars, fnVars>>
    \/ HtDestroy /\ UNCHANGED <<arrVars, gsVars, rcVars, spVars, cvVars, glVars, lpVars, fnVars>>
SpecHash == InitHash /\ [][NextHash]_vars

InitString ==
    GsInit /\ ArrIdle /\ HtIdle /\ RcIdle /\ SpIdle /\ CvIdle /\ GlIdle /\ LpIdle /\ FnIdle
NextString ==
    \/ GsAssign /\ UNCHANGED <<arrVars, htVars, rcVars, spVars, cvVars, glVars, lpVars, fnVars>>
    \/ GsAppend /\ UNCHANGED <<arrVars, htVars, rcVars, spVars, cvVars, glVars, lpVars, fnVars>>
SpecString == InitString /\ [][NextString]_vars

InitRc4 ==
    RcInit /\ ArrIdle /\ HtIdle /\ GsIdle /\ SpIdle /\ CvIdle /\ GlIdle /\ LpIdle /\ FnIdle
NextRc4 ==
    \/ RcFill /\ UNCHANGED <<arrVars, htVars, gsVars, spVars, cvVars, glVars, lpVars, fnVars>>
    \/ RcKsaStep /\ UNCHANGED <<arrVars, htVars, gsVars, spVars, cvVars, glVars, lpVars, fnVars>>
    \/ RcKsaEnd /\ UNCHANGED <<arrVars, htVars, gsVars, spVars, cvVars, glVars, lpVars, fnVars>>
    \/ RcPrgaStep /\ UNCHANGED <<arrVars, htVars, gsVars, spVars, cvVars, glVars, lpVars, fnVars>>
    \/ RcReturn /\ UNCHANGED <<arrVars, htVars, gsVars, spVars, cvVars, glVars, lpVars, fnVars>>
    \/ RcAgain /\ UNCHANGED <<arrVars, htVars, gsVars, spVars, cvVars, glVars, lpVars, fnVars>>
SpecRc4 == InitRc4 /\ [][NextRc4]_vars

InitSplit ==
    SpInit /\ ArrIdle /\ HtIdle /\ GsIdle /\ RcIdle /\ CvIdle /\ GlIdle /\ LpIdle /\ FnIdle
NextSplit ==
    \/ SpSplit /\ UNCHANGED <<arrVars, htVars, gsVars, rcVars, cvVars, glVars, lpVars, fnVars>>
SpecSplit == InitSplit /\ [][NextSplit]_vars

InitConv ==
    CvInit /\ ArrIdle /\ HtIdle /\ GsIdle /\ RcIdle /\ SpIdle /\ GlIdle /\ LpIdle /\ FnIdle
NextConv ==
    \/ CvAscii2Unicode /\ UNCHANGED <<arrVars, htVars, gsVars, rcVars, spVars, glVars, lpVars, fnVars>>
    \/ CvUnicode2Ascii /\ UNCHANGED <<arrVars, htVars, gsVars, rcVars, spVars, glVars, lpVars, fnVars>>
SpecConv == InitConv /\ [][NextConv]_vars

InitList ==
    GlInit /\ ArrIdle /\ HtIdle /\ GsIdle /\ RcIdle /\ SpIdle /\ CvIdle /\ LpIdle /\ FnIdle
NextList ==
    \/ GlAppend /\ UNCHANGED <<arrVars, htVars, gsVars, rcVars, spVars, cvVars, lpVars, fnVars>>
    \/ GlRemove /\ UNCHANGED <<arrVars, htVars, gsVars, rcVars, spVars, cvVars, lpVars, fnVars>>
    \/ GlFree /\ UNCHANGED <<arrVars, htVars, gsVars, rcVars, spVars, cvVars, lpVars, fnVars>>
SpecList == InitList /\ [][NextList]_vars

\* The four containers together.  They share no state, so a behaviour
\* creates one of them and runs its operations; the others stay idle.
InitContainers ==
    /\ \/ ArrInit /\ HtIdle /\ GlIdle /\ GsIdle
       \/ HtInit /\ ArrIdle /\ GlIdle /\ GsIdle
       \/ GlInit /\ ArrIdle /\ HtIdle /\ GsIdle
       \/ GsInit /\ ArrIdle /\ HtIdle /\ GlIdle
    /\ RcIdle /\ SpIdle /\ CvIdle /\ LpIdle /\ FnIdle
NextContainers ==
    \/ arr_last.op # "idle" /\ NextArray
    \/ ht_last.op # "idle" /\ NextHash
    \/ gl_last.op # "idle" /\ NextList
    \/ gs_last.op # "idle" /\ NextString
SpecContainers == InitContainers /\ [][NextContainers]_vars

\* One call of g_ptr_array_sort or of g_hash_table_foreach_remove.  The
\* call runs on its own thread of control and nothing suspends it: a pass
\* that can be taken is taken, which is the weak fairness of SpecLoopsFair.
InitLoops ==
    /\ LpSortInit \/ LpFrInit
    /\ ArrIdle /\ HtIdle /\ GsIdle /\ RcIdle /\ SpIdle /\ CvIdle /\ GlIdle
    /\ FnIdle
NextLoops ==
    \/ LpSortCall /\ UNCHANGED <<arrVars, htVars, gsVars, rcVars, spVars, cvVars, glVars, fnVars>>
    \/ LpSortOuter /\ UNCHANGED <<arrVars, htVars, gsVars, rcVars, spVars, cvVars, glVars, fnVars>>
    \/ LpSortCompare /\ UNCHANGED <<arrVars, htVars, gsVars, rcVars, spVars, cvVars, glVars, fnVars>>
    \/ LpSortInnerEnd /\ UNCHANGED <<arrVars, htVars, gsVars, rcVars, spVars, cvVars, glVars, fnVars>>
    \/ LpFrCall /\ UNCHANGED <<arrVars, htVars, gsVars, rcVars, spVars, cvVars, glVars, fnVars>>
    \/ LpFrPass /\ UNCHANGED <<arrVars, htVars, gsVars, rcVars, spVars, cvVars, glVars, fnVars>>
    \/ LpFrReturn /\ UNCHANGED <<arrVars, htVars, gsVars, rcVars, spVars, cvVars, glVars, fnVars>>
SpecLoops == InitLoops /\ [][NextLoops]_vars
SpecLoopsFair == SpecLoops /\ WF_vars(NextLoops)

\* Single calls, one after another while none has crashed.
InitCalls ==
    /\ fn = IdleOp
    /\ ArrIdle /\ HtIdle /\ GsIdle /\ RcIdle /\ SpIdle /\ CvIdle /\ GlIdle
    /\ LpIdle
NextCalls ==
    \/ FnMemdup /\ UNCHANGED <<arrVars, htVars, gsVars, rcVars, spVars, cvVars, glVars, lpVars>>
    \/ FnStrEqual /\ UNCHANGED <<arrVars, htVars, gsVars, rcVars, spVars, cvVars, glVars, lpVars>>
    \/ FnHashLookup /\ UNCHANGED <<arrVars, htVars, gsVars, rcVars, spVars, cvVars, glVars, lpVars>>
    \/ FnRc4 /\ UNCHANGED <<arrVars, htVars, gsVars, rcVars, spVars, cvVars, glVars, lpVars>>
    \/ FnStrdup /\ UNCHANGED <<arrVars, htVars, gsVars, rcVars, spVars, cvVars, glVars, lpVars>>
    \/ FnStrndup /\ UNCHANGED <<arrVars, htVars, gsVars, rcVars, spVars, cvVars, glVars, lpVars>>
    \/ FnLocaleToUtf8 /\ UNCHANGED <<arrVars, htVars, gsVars, rcVars, spVars, cvVars, glVars, lpVars>>
SpecCalls == InitCalls /\ [][NextCalls]_vars

(***************************************************************************)
(* C1.  Reference notions for the order of the elements.                   *)
(***************************************************************************)
\* s is t with some elements left out, the others in t's order.
RECURSIVE IsSubseq(_, _)
IsSubseq(s, t) ==
    IF s = <<>> THEN TRUE
    ELSE IF t = <<>> THEN FALSE
    ELSE IF Head(s) = Head(t) THEN IsSubseq(Tail(s), Tail(t))
    ELSE IsSubseq(s, Tail(t))

\* seq without its first element equal to x (seq itself when there is none).
RemoveFirstRef(seq, x) ==
    IF \E i \in 1..Len(seq) : seq[i] = x
    THEN LET i == CHOOSE k \in 1..Len(seq) :
                     seq[k] = x /\ \A m \in 1..(k - 1) : seq[m] # x
         IN  SubSeq(seq, 1, i - 1) \o SubSeq(seq, i + 1, Len(seq))
    ELSE seq

\* C1: after every sequence of g_ptr_array_add and g_ptr_array_remove calls
\* the elements of slots [0,len) are in the order in which they were
\* appended (they are the append history with the removed ones left out); an
\* add stores the handle in a new last slot and changes no other slot (an
\* add whose realloc fails, or on a NULL array, changes nothing), and a remove
\* deletes exactly the first slot equal to the handle and moves no other
\* element.
C1_OrderPreserved ==
    /\ IsSubseq(Live(arr), arr_hist)
    /\ arr_last.op = "add" =>
           Live(arr) = IF arr_last.ok
                       THEN Append(arr_last.before, arr_last.arg)
                       ELSE arr_last.before
    /\ arr_last.op = "remove" =>
           Live(arr) = RemoveFirstRef(arr_last.before, arr_last.arg)

\* C1 witness: add A, B, C then remove B leaves [A, C].
C1_Witness ==
    /\ arr_last = [op |-> "remove", arg |-> 2, ok |-> TRUE,
                   before |-> <<1, 2, 3>>]
    /\ Live(arr) = <<1, 3>>
    /\ arr_hist = <<1, 2, 3>>

(***************************************************************************)
(* C2, C3.  The associative container.                                     *)
(***************************************************************************)
\* C2: after any sequence of g_hash_table_insert, g_hash_table_remove and
\* g_hash_table_foreach_remove calls, no two entries of the table have keys
\* that are equal under the configured equality predicate.
C2_NoDuplicateKeys ==
    ~Unusable(ht) =>
        \A i, j \in 1..ht.array.len :
            i < j => ~Compare(ht.compare, ht_heap[ht.array.pdata[i]].key,
                              ht_heap[ht.array.pdata[j]].key)

\* C2 witness: a table of two entries right after an insert whose key is
\* another pointer than the stored one but equal to it under the predicate.
C2_Witness ==
    /\ ht_last.op = "insert" /\ ht_last.found
    /\ ~Unusable(ht) /\ ht.array.len = 2
    /\ \A i \in 1..2 : ht_heap[ht.array.pdata[i]].key # ht_last.key

\* C3 as stated: in every state of a table, g_hash_table_insert(table, k, v)
\* followed immediately by g_hash_table_lookup(table, k) returns v.
C3_Original ==
    (~Unusable(ht) /\ ht_last.op = "insert") =>
        g_hash_table_lookup(ht, ht_heap, ht_last.key) = ht_last.value

\* C3 amended: g_hash_table_insert(table, k, v) followed immediately by
\* g_hash_table_lookup(table, k) returns v when an entry with a key equal to
\* k was present, or when the table and its array exist and both the malloc
\* of the entry record and the realloc of the array succeed; otherwise the
\* insert stored nothing and the lookup returns NULL.
C3_InsertThenLookup ==
    ht_last.op = "insert" =>
        g_hash_table_lookup(ht, ht_heap, ht_last.key) =
            IF ht_last.found \/ ht_last.ok THEN ht_last.value ELSE NULL

\* C3 witness: a second key was just inserted and is looked up with its value.
C3_Witness ==
    /\ ht_last.op = "insert" /\ ~ht_last.found /\ ht_last.ok
    /\ ht.array.len = 2
    /\ g_hash_table_lookup(ht, ht_heap, ht_last.key) = ht_last.value

(***************************************************************************)
(* C4, C5.  The string buffer.                                             *)
(***************************************************************************)
\* The first len bytes of the buffer.
Content(string) == SubSeq(string.str, 1, string.len)

\* C4: after g_string_new and after every g_string_assign and
\* g_string_append call (a NULL text and a failing realloc included) the
\* buffer has allocated_len >= len + 1, its block has allocated_len bytes,
\* and str[len] is the NUL terminator.
C4_BufferInvariant ==
    ~gs.isnull =>
        /\ gs.allocated_len >= gs.len + 1
        /\ Len(gs.str) = gs.allocated_len
        /\ gs.str[gs.len + 1] = NUL

\* C4 witness: a non-empty buffer right after an append whose realloc failed.
C4_Witness ==
    /\ ~gs.isnull /\ gs.len >= 1
    /\ gs_last.op = "append" /\ gs_last.retnull

\* C5 as stated: after any sequence of g_string_assign and g_string_append
\* calls the buffer's len and first len bytes are those of the reference
\* string in which every assign replaces the content and every append
\* concatenates its text.
C5_Original ==
    (~gs.isnull /\ gs_last.op \in {"assign", "append"}) =>
        /\ gs.len = Len(gs_last.expect)
        /\ Content(gs) = gs_last.expect

\* C5 amended: after any sequence of g_string_assign and g_string_append
\* calls the buffer's len and first len bytes are those of the reference
\* string in which an assign that succeeds replaces the content, an append
\* that succeeds concatenates its text, and a call that returns NULL because
\* its realloc failed changes nothing.
C5_MatchesReference ==
    ~gs.isnull =>
        /\ gs.len = Len(gs_ref)
        /\ Content(gs) = gs_ref

\* C5 witness: "ba" was just appended to a buffer holding "ab".
C5_Witness ==
    /\ ~gs.isnull /\ gs_last.op = "append" /\ ~gs_last.retnull
    /\ Content(gs) = <<97, 98, 98, 97>>
    /\ gs_ref = <<97, 98, 98, 97>>

(***************************************************************************)
(* C6.  The cipher.                                                        *)
(***************************************************************************)
\* C6: for every key with key_len >= 1 and every data buffer, the empty one
\* included, when mdbi_rc4 has been applied twice in succession with the
\* same key every byte of data has its original value again.
C6_RoundTrip ==
    (rc.pc = "done" /\ rc_hist.pass = 2) => rc.data = rc_hist.orig

\* C6 witness: a two-byte buffer that the first application changed and the
\* second restored.
C6_Witness ==
    /\ rc.pc = "done" /\ rc_hist.pass = 2
    /\ rc.data_len = 2 /\ rc.key_len = 2
    /\ rc_hist.mid # rc_hist.orig
    /\ rc.data = rc_hist.orig

(***************************************************************************)
(* C7, C8.  Splitting.                                                     *)
(***************************************************************************)
\* The place (from 1) of the first occurrence of d in s, 0 when there is none.
FirstOcc(s, d) ==
    LET at == {q \in 1..(Len(s) - Len(d) + 1) : SubSeq(s, q, q + Len(d) - 1) = d}
    IN  IF at = {} THEN 0 ELSE CHOOSE q \in at : \A r \in at : q <= r

\* The reference split: s cut at the occurrences of d found left to right
\* without overlap, into at most k pieces when k >= 1 (the k-th piece being
\* all the rest), into all its pieces when k <= 0.
RECURSIVE RefSplit(_, _, _)
RefSplit(s, d, k) ==
    LET q == FirstOcc(s, d)
    IN  IF k = 1 \/ q = 0 THEN <<s>>
        ELSE <<SubSeq(s, 1, q - 1)>>
                 \o RefSplit(SubSeq(s, q + Len(d), Len(s)), d, k - 1)

\* The number of occurrences of d in s, left to right without overlap.
RefOccurrences(s, d) == Len(RefSplit(s, d, 0)) - 1

\* The pieces joined with d between consecutive ones.
RECURSIVE RefJoin(_, _)
RefJoin(pieces, d) ==
    IF pieces = <<>> THEN <<>>
    ELSE IF Len(pieces) = 1 THEN pieces[1]
    ELSE pieces[1] \o d \o RefJoin(Tail(pieces), d)

\* The tokens a caller reads from the vector g_strsplit returned: the
\* strings before its first NULL pointer (none when it returned NULL).
RECURSIVE TokensOf(_)
TokensOf(v) ==
    IF v = <<>> \/ Head(v).isnull THEN <<>>
    ELSE <<Head(v).s>> \o TokensOf(Tail(v))

SpTokens == IF sp.result.isnull THEN <<>> ELSE TokensOf(sp.result.v)

\* g_strsplit returned from a call with strings s and d, d not empty.
SpReturned ==
    /\ sp.pc = "ret"
    /\ ~sp.haystack.isnull /\ ~sp.needle.isnull
    /\ sp.needle.s # <<>>

\* The call was capped at k = max_tokens >= 1 and s holds k-1 occurrences of
\* d or more.
SpCapped ==
    /\ SpReturned
    /\ sp.max_tokens >= 1
    /\ RefOccurrences(sp.haystack.s, sp.needle.s) >= sp.max_tokens - 1

SpUncappedNoEmpty ==
    /\ SpReturned
    /\ sp.max_tokens <= 0
    /\ LET pieces == RefSplit(sp.haystack.s, sp.needle.s, 0)
       IN  \A x \in 1..Len(pieces) : pieces[x] # <<>>

Prefix(mem, n) == [x \in 0..(n - 1) |-> mem[x]]

\* mdb_unicode2ascii has returned.
CvDone == cv.pc = "done"

\* A round trip of a sequence of bytes in 1..127 has returned, both
\* destinations large enough for their whole result: two bytes for each
\* source byte, then one byte for each and the terminator.
CvRoundTripped ==
    /\ CvDone /\ cv.via = "roundtrip"
    /\ ~cv.orig.isnull /\ ~cv.src.isnull /\ ~cv.dest.isnull
    /\ \A x \in DOMAIN cv.orig.mem : cv.orig.mem[x] \in 1..127
    /\ cv.dlen1 >= 2 * ArrayLen(cv.orig.mem)
    /\ cv.dlen >= ArrayLen(cv.orig.mem) + 1

\* C9: for a sequence of bytes all in 1..127, mdb_ascii2unicode followed by
\* mdb_unicode2ascii on its output, with the length it returned and both
\* destinations large enough, yields the original sequence: its length is
\* returned, its bytes are in dest, and the terminator follows them.
C9_RoundTrip ==
    CvRoundTripped =>
        /\ cv.ret = ArrayLen(cv.orig.mem)
        /\ cv.slen = 2 * cv.ret
        /\ Prefix(cv.dest.mem, cv.ret) = cv.orig.mem
        /\ cv.dest.mem[cv.ret] = NUL

\* C9 witness: "A\x7f" went to 'A' 0 0x7f 0 and came back.
C9_Witness ==
    /\ CvRoundTripped
    /\ cv.orig.mem = ArrayOf(<<65, 127>>)
    /\ Prefix(cv.src.mem, cv.slen) = ArrayOf(<<65, 0, 127, 0>>)
    /\ Prefix(cv.dest.mem, cv.ret) = ArrayOf(<<65, 127>>)

\* The 2-byte units of a source of slen bytes, a trailing odd byte counted.
Units(slen) == (slen + 1) \div 2

\* C10: for every slen and dlen, 0 and 1 included, mdb_unicode2ascii writes
\* only to dest indices below dlen, and to none when dest is NULL.  With a
\* source and a destination of dlen > 0 it converts min(units, dlen-1) bytes
\* and writes them and one terminator, truncating when the source holds more
\* units than fit; with no source it writes the terminator alone.
C10_WritesBelowDlen ==
    CvDone =>
        /\ cv.writes \subseteq 0..(cv.dlen - 1)
        /\ cv.dest.isnull => cv.writes = {}
        /\ (~cv.dest.isnull /\ cv.dlen > 0) =>
              /\ cv.ret = IF cv.src.isnull THEN 0
                          ELSE Min(Units(cv.slen), cv.dlen - 1)
              /\ cv.ret <= cv.dlen - 1
              /\ cv.writes = 0..cv.ret
              /\ cv.dest.mem[cv.ret] = NUL
              /\ \A x \in 0..(cv.ret - 1) :
                     cv.dest.mem[x] =
                         U2AByte(cv.src.mem[2 * x],
                                 IF 2 * x + 1 < cv.slen
                                 THEN cv.src.mem[2 * x + 1] ELSE 0)

\* C10 witness: a source of two units into a destination of two bytes; one
\* byte is converted and the terminator takes the last index.
C10_Witness ==
    /\ CvDone /\ cv.via = "direct"
    /\ ~cv.src.isnull /\ ~cv.dest.isnull
    /\ cv.slen = 4 /\ cv.dlen = 2
    /\ cv.ret = 1 /\ cv.writes = {0, 1}
    /\ cv.dest.mem[1] = NUL

\* A transcoder call with a destination of dlen > 0 bytes has returned:
\* mdb_ascii2unicode (pc = "wide" on a round trip) or mdb_unicode2ascii.
CvReturned ==
    /\ \/ cv.pc = "wide" /\ cv.via = "roundtrip"
       \/ cv.pc = "done"
    /\ ~cv.dest.isnull /\ cv.dlen > 0

\* C11: after mdb_unicode2ascii and after mdb_ascii2unicode, called with a
\* destination that is not NULL and dlen > 0, the position right after the
\* converted output (index ret) holds a terminator the call wrote.
C11_BothTerminate ==
    CvReturned => (cv.ret \in cv.writes /\ cv.dest.mem[cv.ret] = NUL)

(***************************************************************************)
(* C12, C18, C20: the linked list.                                         *)
(***************************************************************************)
\* The addresses reached from list by next, list first; at most fuel of
\* them.
RECURSIVE Reach(_, _, _)
Reach(heap, list, fuel) ==
    IF list = NULL \/ fuel = 0 THEN <<>>
    ELSE <<list>> \o Reach(heap, heap[list].next, fuel - 1)

GlNodes(heap, list) == Reach(heap, list, Len(heap) + 1)

\* The payloads read from list by next.
GlData(heap, list) ==
    [i \in 1..Len(GlNodes(heap, list)) |-> heap[GlNodes(heap, list)[i]].data]

\* The list at head is well linked.
WellLinked(heap, head) ==
    LET nodes == GlNodes(heap, head)
        at(i) == heap[nodes[i]]
    IN  /\ Len(nodes) <= Len(heap)
        /\ \A i \in 1..Len(nodes) :
              /\ at(i).frees = 0
              /\ at(i).next # NULL => heap[at(i).next].prev = nodes[i]
              /\ at(i).prev # NULL => heap[at(i).prev].next = nodes[i]
        /\ head # NULL =>
              /\ heap[head].prev = NULL
              /\ at(Len(nodes)).next = NULL

\* C12: after any sequence of g_list_append and g_list_remove calls, each
\* on the head the previous call returned, the list is well linked: n.next.prev
\* = n for every node with a successor, n.prev.next = n for every node with
\* a predecessor, the head's prev and the last node's next are NULL, and
\* no reachable node was freed.
C12_WellLinked ==
    gl_last.op # "free" => WellLinked(gl_heap, gl)

\* C12 witness: the middle node of a list of three was removed.
C12_Witness ==
    /\ gl_last.op = "remove"
    /\ Len(GlNodes(gl_last.heap, gl_last.head)) = 3
    /\ gl_last.freed = <<NodePtr(GlNodes(gl_last.heap, gl_last.head)[2])>>
    /\ Len(GlNodes(gl_heap, gl)) = 2

(***************************************************************************)
(* C13: payload ownership.                                                 *)
(***************************************************************************)
\* Every pointer of the log is of one of the kinds.
OnlyKinds(log, kinds) == \A i \in 1..Len(log) : log[i].kind \in kinds

\* C13: no operation of the pointer array, the list or the table passes a
\* payload to free().  g_ptr_array_free frees the slots and the array record
\* and nothing else for both values of free_elements; g_list_remove and
\* g_list_free free list nodes; g_hash_table_remove and
\* g_hash_table_foreach_remove free entry records; g_hash_table_destroy frees
\* entry records, the slots, the array record and the table record.
C13_NoPayloadFreed ==
    /\ arr_last.op # "idle" =>
          /\ OnlyKinds(arr_freed, {"pdata", "array"})
          /\ (arr_last.op = "free" /\ ~arr.isnull) =>
                (Len(arr_freed) = 2 /\ arr_freed[2] = Ptr("array", 1))
          /\ arr_last.op # "free" => arr_freed = <<>>
    /\ gl_last.op # "idle" => OnlyKinds(gl_last.freed, {"node"})
    /\ ht_last.op # "idle" =>
          /\ OnlyKinds(ht_freed, {"entry", "pdata", "array", "table"})
          /\ ht_last.op # "destroy" => OnlyKinds(ht_freed, {"entry"})

\* C13 witness: g_ptr_array_free(array, TRUE) on an array of two elements
\* freed the slots and the record.
C13_Witness ==
    /\ arr_last.op = "free" /\ arr_last.arg = 1
    /\ Len(arr_last.before) = 2
    /\ arr_freed = <<Ptr("pdata", 1), Ptr("array", 1)>>

(***************************************************************************)
(* C14: g_ptr_array_foreach.                                               *)
(***************************************************************************)
\* The slot indices 0, 1, ..., n-1.
FirstSlots(n) == [k \in 1..n |-> k - 1]

C15_FailedGrowNoOp ==
    [][/\ (arr_last'.op = "add" /\ ~arr_last'.ok) => arr' = arr
       /\ (gs_last'.op \in {"assign", "append"} /\ gs_last'.retnull
             /\ ~gs.isnull) =>
              /\ gs' = gs
              /\ gs'.allocated_len >= gs'.len + 1
              /\ gs'.str[gs'.len + 1] = NUL]_vars

\* C15 witness: an assign of a text longer than the block returned NULL and
\* the buffer still holds its old content.
C15_Witness ==
    /\ gs_last.op = "assign" /\ gs_last.retnull
    /\ ~gs.isnull /\ gs.len >= 1
    /\ Len(gs_last.expect) + 1 > gs.allocated_len
    /\ Content(gs) = gs_ref

(***************************************************************************)
(* C16: the entry records.                                                 *)
(***************************************************************************)
\* C16: every entry record g_hash_table_insert allocated is freed exactly
\* once, by g_hash_table_remove, g_hash_table_foreach_remove or
\* g_hash_table_destroy: no record is ever freed twice, and after
\* g_hash_table_destroy none is still allocated, also when growing the array
\* failed during an insert.
C16_EntriesFreedOnce ==
    ht_last.op # "idle" =>
        /\ \A e \in 1..Len(ht_heap) : ht_heap[e].st # "freed twice"
        /\ ht_last.op = "destroy" =>
              \A e \in 1..Len(ht_heap) : ht_heap[e].st = "freed"

(***************************************************************************)
(* C17: an insert that overwrites.                                         *)
(***************************************************************************)
\* The slot of the entry whose key is equal to key (there is one).
SlotOf(table, heap, key) ==
    CHOOSE i \in 1..table.array.len :
        Compare(table.compare, heap[table.array.pdata[i]].key, key)

\* C17: g_hash_table_insert with a key equal to the key of an entry changes
\* that entry's value and nothing else: the number of entries and every
\* slot are as before, the entry keeps its stored key, which
\* g_hash_table_lookup_extended returns with the new value, and every other
\* record is as before.
C17_OverwriteFrame ==
    [][(ht_last'.op = "insert" /\ Present(ht, ht_heap, ht_last'.key)) =>
          LET entry == ht.array.pdata[SlotOf(ht, ht_heap, ht_last'.key)]
          IN  /\ ht' = ht
              /\ Len(ht_heap') = Len(ht_heap)
              /\ \A e \in 1..Len(ht_heap) :
                     e # entry => ht_heap'[e] = ht_heap[e]
              /\ ht_heap'[entry] =
                     [ht_heap[entry] EXCEPT !.value = ht_last'.value]
              /\ g_hash_table_lookup_extended(ht', ht_heap', ht_last'.key) =
                     [ret |-> TRUE, orig_key |-> ht_heap[entry].key,
                      value |-> ht_last'.value]]_vars

\* C17 witness: an insert with another pointer to the key of the second of
\* two entries gave that entry the new value and left the first its own.
C17_Witness ==
    /\ ht_last.op = "insert" /\ ht_last.found
    /\ ~Unusable(ht) /\ ht.array.len = 2
    /\ ht_heap[ht.array.pdata[2]].key # ht_last.key
    /\ Compare(ht.compare, ht_heap[ht.array.pdata[2]].key, ht_last.key)
    /\ ht_heap[ht.array.pdata[2]].value = ht_last.value
    /\ ht_heap[ht.array.pdata[1]].value # ht_last.value

(***************************************************************************)
(* C18: removing or looking up something absent.                           *)
(***************************************************************************)
\* C18: a call that removes or looks up something absent returns the
\* sentinel and changes nothing.  g_ptr_array_remove of a handle in no slot
\* of [0,len) and g_hash_table_remove of a key equal to no entry's key
\* return FALSE, g_list_remove of a payload no node holds returns the head
\* it was given, g_hash_table_lookup returns NULL and
\* g_hash_table_lookup_extended returns FALSE; the array, the table with
\* its records and the list with its nodes are as before the call.
C18_AbsentNoOp ==
    [][/\ (arr_last'.op = "remove"
             /\ \A i \in 1..arr.len : arr.pdata[i] # arr_last'.arg) =>
              (~arr_last'.ok /\ arr' = arr)
       /\ (ht_last'.op = "remove" /\ ~ht_last'.found) =>
              (ht_last'.ret = 0 /\ ht' = ht /\ ht_heap' = ht_heap)
       /\ (ht_last'.op = "lookup" /\ ~ht_last'.found) =>
              (ht_last'.ret = NULL /\ ht' = ht /\ ht_heap' = ht_heap)
       /\ (ht_last'.op = "lookup_extended" /\ ~ht_last'.found) =>
              (ht_last'.ret = 0 /\ ht' = ht /\ ht_heap' = ht_heap)
       /\ (gl_last'.op = "remove"
             /\ \A i \in 1..Len(GlNodes(gl_heap, gl)) :
                    GlData(gl_heap, gl)[i] # gl_last'.arg) =>
              (gl' = gl /\ gl_heap' = gl_heap /\ gl_last'.freed = <<>>)]_vars

\* C18 witness: g_list_remove of a payload that neither node of a list of
\* two holds returned the same head.
C18_Witness ==
    /\ gl_last.op = "remove" /\ gl_last.freed = <<>>
    /\ Len(GlNodes(gl_heap, gl)) = 2
    /\ \A i \in 1..2 : GlData(gl_heap, gl)[i] # gl_last.arg
    /\ gl = gl_last.head /\ gl_heap = gl_last.heap

(***************************************************************************)
(* C19: g_hash_table_foreach_remove.                                       *)
(***************************************************************************)
\* The entries of seq whose call of the predicate, the k-th for seq[k],
\* returned FALSE, from position k on.
RECURSIVE Survivors(_, _, _)
Survivors(seq, decide, k) ==
    IF k > Len(seq) THEN <<>>
    ELSE (IF decide[k] THEN <<>> ELSE <<seq[k]>>)
         \o Survivors(seq, decide, k + 1)

DropAt(seq, k) == SubSeq(seq, 1, k - 1) \o SubSeq(seq, k + 1, Len(seq))

\* C20: g_list_remove(list, payload), payload held by some node, removes
\* exactly the first node whose data is payload: the nodes reached from the
\* returned head are the old ones without that node, in the same order and
\* with their payloads, so the payload sequence is the old one with the first
\* occurrence deleted; the returned head is the old head, or the old second
\* node (NULL for a list of one) when the head was removed; the removed node
\* is the only pointer freed, and freed once.
C20_RemoveFirst ==
    (gl_last.op = "remove"
       /\ \E i \in 1..Len(GlNodes(gl_last.heap, gl_last.head)) :
              GlData(gl_last.heap, gl_last.head)[i] = gl_last.arg) =>
        LET nodes == GlNodes(gl_last.heap, gl_last.head)
            data == GlData(gl_last.heap, gl_last.head)
            k == CHOOSE i \in 1..Len(nodes) :
                     data[i] = gl_last.arg /\ \A m \in 1..(i - 1) : data[m] # gl_last.arg
        IN  /\ GlNodes(gl_heap, gl) = DropAt(nodes, k)
            /\ GlData(gl_heap, gl) = RemoveFirstRef(data, gl_last.arg)
            /\ gl = IF k > 1 THEN gl_last.head
                    ELSE IF Len(nodes) >= 2 THEN nodes[2] ELSE NULL
            /\ gl_last.freed = <<NodePtr(nodes[k])>>
            /\ gl_last.heap[nodes[k]].frees = 0 /\ gl_heap[nodes[k]].frees = 1
            /\ \A n \in 1..Len(gl_heap) :
                   n # nodes[k] => gl_heap[n].frees = gl_last.heap[n].frees

\* C20 witness: removing payload 1 from the list 1, 2, 1 freed the head and
\* returned the old second node, leaving 2, 1.
C20_Witness ==
    /\ gl_last.op = "remove" /\ gl_last.arg = 1
    /\ GlData(gl_last.heap, gl_last.head) = <<1, 2, 1>>
    /\ GlData(gl_heap, gl) = <<2, 1>>
    /\ gl = gl_last.heap[gl_last.head].next
    /\ gl_last.freed = <<NodePtr(gl_last.head)>>


(***************************************************************************)
(* C21.  A comparator that is a total preorder ranks the handles:          *)
(* func(a, b) > 0 exactly when a ranks above b.  The comparator of a call  *)
(* is any ranking that agrees with the results the call observed.          *)
(***************************************************************************)
Rankings == [Handles -> 1..NHandles]

AgreesWith(rank, log) ==
    \A k \in 1..Len(log) : log[k][3] = (rank[log[k][1]] > rank[log[k][2]])

Occurrences(seq, h) == Cardinality({k \in 1..Len(seq) : seq[k] = h})

SortReturned == lp.kind = "sort" /\ lp.pc = "done"

\* C21: when g_ptr_array_sort(array, cmp) has returned and cmp is a total
\* preorder, the array has the len and the multiset of handles it had at
\* the call and cmp(pdata[i], pdata[i+1]) <= 0 for every adjacent pair; an
\* array of length 0 or 1 is left as it was.
C21_Sorted ==
    SortReturned =>
        LET after == Live(lp.array)
        IN  /\ Len(lp.before) <= 1 => after = lp.before
            /\ \A rank \in Rankings :
                   AgreesWith(rank, lp.log) =>
                       /\ lp.array.len = Len(lp.before)
                       /\ \A h \in Handles :
                              Occurrences(after, h) = Occurrences(lp.before, h)
                       /\ lp.func # NULL =>
                              \A k \in 1..(lp.array.len - 1) :
                                  rank[after[k]] <= rank[after[k + 1]]

\* A sort of a full array under a total preorder that moved elements.
C21_Witness ==
    /\ SortReturned
    /\ Len(lp.before) = MaxSortLen
    /\ Live(lp.array) # lp.before
    /\ \E rank \in Rankings : AgreesWith(rank, lp.log)

(***************************************************************************)
(* C22.  The capacity of the string buffer across assign and append.       *)
(***************************************************************************)
\* C22: a g_string_assign or g_string_append call never decreases
\* allocated_len; it changes it only when the new content plus its
\* terminator exceeds it, and then to new_len + 1 on assign and to
\* 2 x (new_len + 1) on append, new_len being the length of the content the
\* call produces.
C22_AllocatedLen ==
    [][~gs.isnull =>
          LET new_len == Len(gs_last'.expect)
              exceeds == new_len + 1 > gs.allocated_len
          IN  /\ gs'.allocated_len >= gs.allocated_len
              /\ gs'.allocated_len # gs.allocated_len => exceeds
              /\ exceeds /\ ~gs_last'.retnull =>
                     gs'.allocated_len =
                         IF gs_last'.op = "assign" THEN new_len + 1
                         ELSE 2 * (new_len + 1)]_vars

\* An append that had to grow a buffer created with an exact-fit block.
C22_Witness ==
    /\ ~gs.isnull /\ gs_last.op = "append" /\ ~gs_last.retnull
    /\ gs.len = MaxStrLen
    /\ gs.allocated_len = 2 * (MaxStrLen + 1)

(***************************************************************************)
(* C23.  The bytes mdb_unicode2ascii produces, unit by unit.               *)
(***************************************************************************)
\* The 2-byte units wholly inside a source of slen bytes.
WholeUnits(slen) == slen \div 2

\* The largest index a call wrote: where its terminator went.
LastWritten(writes) == CHOOSE x \in writes : \A y \in writes : y <= x

\* C23: after mdb_unicode2ascii on a source and a destination of dlen > 0,
\* for every n below min(number of 2-byte units in src, dlen - 1) output
\* byte n is the low byte of unit n when its high byte is zero and '?' when
\* it is not, and the value returned is the number of bytes written before
\* the terminator.
C23_LowByteOrQuestionMark ==
    (CvDone /\ ~cv.src.isnull /\ ~cv.dest.isnull /\ cv.dlen > 0) =>
        /\ \A n \in 0..(Min(WholeUnits(cv.slen), cv.dlen - 1) - 1) :
               cv.dest.mem[n] = IF cv.src.mem[2 * n + 1] = 0
                                THEN cv.src.mem[2 * n]
                                ELSE QuestionMark
        /\ cv.dest.mem[LastWritten(cv.writes)] = NUL
        /\ cv.ret = Cardinality({x \in cv.writes : x < LastWritten(cv.writes)})

\* Two units, the first an extended character with a zero high byte, the
\* second with a non-zero high byte, both converted.
C23_Witness ==
    /\ CvDone /\ cv.via = "direct"
    /\ ~cv.src.isnull /\ ~cv.dest.isnull
    /\ cv.slen = 4 /\ cv.dlen >= 3
    /\ cv.src.mem[0] = 200 /\ cv.src.mem[1] = 0 /\ cv.src.mem[3] # 0
    /\ cv.dest.mem[0] = 200 /\ cv.dest.mem[1] = QuestionMark /\ cv.ret = 2

(***************************************************************************)
(* C24.  The table of mdbi_rc4 between the steps of its loops.             *)
(***************************************************************************)
TableIndices == 0..(TableSize - 1)

IsPermutation(s) ==
    /\ DOMAIN s = TableIndices
    /\ {s[x] : x \in TableIndices} = TableIndices

\* C24: in mdbi_rc4 with key_len >= 1 the table s is a permutation of
\* 0..255 after the initialization loop, after every swap of the key
\* scheduling and after every swap of the keystream loop, and the counters
\* i and j each swap indexes s with are within 0..255.  (The swap of a key
\* scheduling step uses the i the step started with; the step ends with i++.)
C24_TableIsPermutation ==
    [][/\ (rc.pc = "init" /\ rc'.pc = "ksa") => IsPermutation(rc'.s)
       /\ (rc.pc = "ksa" /\ rc'.pc = "ksa" /\ rc.key_len >= 1) =>
              /\ IsPermutation(rc'.s)
              /\ rc.i \in TableIndices /\ rc'.j \in TableIndices
       /\ (rc.pc = "prga" /\ rc'.pc = "prga") =>
              /\ IsPermutation(rc'.s)
              /\ rc'.i \in TableIndices /\ rc'.j \in TableIndices]_vars

\* The keystream loop has swapped once for every data byte and the table
\* is a permutation other than the identity.
C24_Witness ==
    /\ rc.pc = "prga" /\ rc.data_len = MaxDataLen /\ rc.k = rc.data_len
    /\ rc.i \in TableIndices /\ rc.j \in TableIndices
    /\ IsPermutation(rc.s)
    /\ \E x \in TableIndices : rc.s[x] # x

(***************************************************************************)
(* C25 and C26.  What a single call does with the pointers it is handed.   *)
(***************************************************************************)
\* C25: an operation given a NULL pointer for a required argument (source
\* string, container, key buffer, equality predicate, callback) returns its
\* failure or sentinel result and does not read, write or call through the
\* NULL pointer.
C25_NullArgsRejected ==
    (fn.op # "idle" /\ fn.nullarg) =>
        /\ ~fn.nullderef
        /\ fn.outcome = "returned"
        /\ fn.ret = fn.sentinel

\* C26: g_strndup(src, len), called directly or by g_locale_to_utf8, reads
\* only the indices of src up to min(len, strlen(src)), for every len, and
\* the copy it returns is the first min(len, strlen(src)) characters of src.
C26_StrndupReadsWithinString ==
    (fn.op \in {"g_strndup", "g_locale_to_utf8"} /\ ~fn.args[1].isnull) =>
        LET src == fn.args[1]
            len == IF fn.args[2] = LenOfString THEN strlen(src) ELSE fn.args[2]
            n == Min(len, strlen(src))
        IN  /\ fn.reads \subseteq 0..n
            /\ fn.outcome = "returned"
            /\ ~fn.ret.isnull => fn.ret = Text(SubSeq(src.s, 1, n))

(***************************************************************************)
(* C27.  Termination of the two loops that call back, whatever the         *)
(* callbacks return, for the calls of SpecLoopsFair.                       *)
(***************************************************************************)
\* A pass of the loop of g_hash_table_foreach_remove.
FrPass ==
    /\ lp.kind = "foreach_remove" /\ lp.pc = "loop"
    /\ lp'.pc = "loop" /\ lp' # lp

\* C27: a call of g_hash_table_foreach_remove or of g_ptr_array_sort
\* returns, whatever the predicate or the comparator answers.  Each pass of
\* the removal loop either advances the index or shortens the array by one
\* entry, and when the loop ends the predicate has been called exactly as
\* many times as the table had entries at the call.
C27_LoopsTerminate ==
    /\ <>(lp.pc = "done")
    /\ [][FrPass =>
            \/ /\ lp'.i = lp.i + 1
               /\ lp'.table.array.len = lp.table.array.len
            \/ /\ lp'.i = lp.i
               /\ lp'.table.array.len = lp.table.array.len - 1]_vars
    /\ []((lp.kind = "foreach_remove" /\ lp.pc = "done"
               /\ lp.function # NULL) =>
              lp.calls = lp.len0)

\* A removal loop over a full table that has returned after removing one
\* entry and keeping the others.
C27_Witness ==
    /\ lp.kind = "foreach_remove" /\ lp.pc = "done"
    /\ lp.len0 = MaxEntries /\ lp.calls = lp.len0
    /\ Len(lp.removed) = 1
    /\ lp.table.array.len = lp.len0 - 1
=============================================================================
